---- MODULE Spec2Model ----
(***************************************************************************)
(* CodeaUniTech back end: the course catalog (Curso / Modulo / Leccion)    *)
(* with its composite writes, and the two-step user registration.          *)
(* Each REST handler or admin form is one action over the database tables. *)
(***************************************************************************)
EXTENDS Integers, Sequences, FiniteSets, TLC

VARIABLES usuarios, docentes, categorias, cursos, modulos, lecciones, ids,
          response, inflight

\* inflight: the requests that have passed validation and not yet written
vars == <<usuarios, docentes, categorias, cursos, modulos, lecciones, ids,
          response, inflight>>


----------------------------------------------------------------------------
(* Bounds of the model *)

MaxCursoId == 1
MaxModuloId == 2
MaxLeccionId == 2
MaxUsuarioId == 3

----------------------------------------------------------------------------
(* Values *)

NoId == 0
None == "None"
NoNumber == -1

\* Python truthiness of an optional text value
Falsy(v) == v = None \/ v = ""

HTTP_200_OK == 200
HTTP_201_CREATED == 201
HTTP_400_BAD_REQUEST == 400
HTTP_500_INTERNAL_SERVER_ERROR == 500

Get(f, k, default) == IF k \in DOMAIN f THEN f[k] ELSE default

----------------------------------------------------------------------------
(* Entity layer: courses app *)

Catalog == [cursos |-> cursos, modulos |-> modulos, lecciones |-> lecciones,
            ids |-> ids]

Row(table, id) == CHOOSE r \in table : r.id = id
Exists(table, id) == \E r \in table : r.id = id

\* Curso.save: a free course is stored with price zero
Curso_save_free_keeps_price(row) == row

Curso_save(row) ==
    IF row.es_gratuito THEN [row EXCEPT !.precio = 0] ELSE row

\* Leccion.save: a video lesson without a video reference becomes a text lesson
Leccion_save_no_coercion(row) == row

Leccion_save(row) ==
    IF row.tipo_contenido = "video" /\ Falsy(row.video_url)
    THEN [row EXCEPT !.tipo_contenido = "texto"]
    ELSE row

\* unique_together = [['curso', 'orden']] as the table constraint
ModuloUnique_unchecked(table, row) == TRUE

ModuloUnique(table, row) ==
    ~ \E m \in table : m.id # row.id /\ m.curso = row.curso /\ m.orden = row.orden

\* unique_together = [['modulo', 'orden']] as the table constraint
LeccionUnique(table, row) ==
    ~ \E l \in table : l.id # row.id /\ l.modulo = row.modulo /\ l.orden = row.orden

Ok(c, id) == [ok |-> TRUE, c |-> c, id |-> id, err |-> "none"]
Fail(c, err) == [ok |-> FALSE, c |-> c, id |-> NoId, err |-> err]

\* INSERT of a Curso row (id from the table's sequence)
CursoInsert(c, row) ==
    LET new == [Curso_save(row) EXCEPT !.id = c.ids.curso]
    IN  Ok([c EXCEPT !.cursos = @ \cup {new}, !.ids.curso = @ + 1], new.id)

\* UPDATE of a Curso row
CursoUpdate(c, row) ==
    LET new == Curso_save(row)
    IN  Ok([c EXCEPT !.cursos = {k \in @ : k.id # row.id} \cup {new}], new.id)

\* INSERT of a Modulo row: curso is NOT NULL and a foreign key,
\* (curso, orden) is unique
ModuloInsert(c, row) ==
    IF row.curso = NoId \/ ~Exists(c.cursos, row.curso)
        THEN Fail(c, "IntegrityError")
    ELSE IF ~ModuloUnique(c.modulos, [row EXCEPT !.id = c.ids.modulo])
        THEN Fail(c, "IntegrityError")
    ELSE LET new == [row EXCEPT !.id = c.ids.modulo]
         IN  Ok([c EXCEPT !.modulos = @ \cup {new}, !.ids.modulo = @ + 1], new.id)

\* UPDATE of a Modulo row under the same constraint
ModuloUpdate(c, row) ==
    IF ~ModuloUnique(c.modulos, row)
        THEN Fail(c, "IntegrityError")
    ELSE Ok([c EXCEPT !.modulos = {m \in @ : m.id # row.id} \cup {row}], row.id)

\* INSERT of a Leccion row: modulo is NOT NULL and a foreign key,
\* (modulo, orden) is unique
LeccionInsert(c, row) ==
    LET new == [Leccion_save(row) EXCEPT !.id = c.ids.leccion]
    IN  IF row.modulo = NoId \/ ~Exists(c.modulos, row.modulo)
            THEN Fail(c, "IntegrityError")
        ELSE IF ~LeccionUnique(c.lecciones, new)
            THEN Fail(c, "IntegrityError")
        ELSE Ok([c EXCEPT !.lecciones = @ \cup {new}, !.ids.leccion = @ + 1], new.id)

\* UPDATE of a Leccion row
LeccionUpdate(c, row) ==
    LET new == Leccion_save(row)
    IN  IF ~LeccionUnique(c.lecciones, new)
            THEN Fail(c, "IntegrityError")
        ELSE Ok([c EXCEPT !.lecciones = {l \in @ : l.id # row.id} \cup {new}], new.id)

\* curso.modulos.all().delete(): on_delete=CASCADE removes the lessons too
DeleteModulos(c, cursoId) ==
    LET gone == {m.id : m \in {m \in c.modulos : m.curso = cursoId}}
    IN  [c EXCEPT !.modulos = {m \in @ : m.id \notin gone},
                  !.lecciones = {l \in @ : l.modulo \notin gone}]

----------------------------------------------------------------------------
(* Text and dates of the users app *)

\* emails, usernames and handles are sequences of characters, so that
\* lower(), split('@') and the pattern of the handle act on them
NoText == <<>>

\* str.lower() on the alphabet of the model
Lower(ch) == CASE ch = "A" -> "a" [] ch = "B" -> "b" [] OTHER -> ch

lower(t) == [i \in 1 .. Len(t) |-> Lower(t[i])]

\* email.split('@')[0]
split_first(t) ==
    LET ats == {i \in 1 .. Len(t) : t[i] = "@"}
    IN  IF ats = {} THEN t
        ELSE SubSeq(t, 1, (CHOOSE i \in ats : \A j \in ats : i <= j) - 1)

DigitChar == <<"0", "1", "2", "3", "4", "5", "6", "7", "8", "9">>

RECURSIVE str(_)
\* str(counter) of a natural number
str(n) == IF n < 10 THEN <<DigitChar[n + 1]>>
          ELSE str(n \div 10) \o <<DigitChar[(n % 10) + 1]>>

\* re.match(r'^[a-zA-Z0-9._]+$', value)
HandleChars ==
    {"a", "b", "A", "B", ".", "_"} \cup {DigitChar[i] : i \in 1 .. 10}

matches_handle_pattern(t) == t # <<>> /\ \A i \in 1 .. Len(t) : t[i] \in HandleChars

\* dates are <<year, month, day>>; date.today() of the runs of the model
NoDate == <<>>
Today == <<2025, 6, 15>>

\* (month, day) < (month, day) of Python tuples
MonthDayBefore(a, b) == a[2] < b[2] \/ (a[2] = b[2] /\ a[3] < b[3])

DateAfter(a, b) == a[1] > b[1] \/ (a[1] = b[1] /\ MonthDayBefore(b, a))

\* today.year - f.year - ((today.month, today.day) < (f.month, f.day))
Edad_year_only(f) == Today[1] - f[1]

Edad(f) == Today[1] - f[1] - (IF MonthDayBefore(Today, f) THEN 1 ELSE 0)

----------------------------------------------------------------------------
(* Entity layer: users app *)

UsersDb == [usuarios |-> usuarios, docentes |-> docentes, ids |-> ids]

\* set_password / check_password: the stored value is a hash of the raw
\* password, and only the raw password it was made from checks against it
make_password(raw) == <<"hash", raw>>

check_password(raw, encoded) == encoded = make_password(raw)

UsuarioDefaults ==
    [id |-> NoId, email |-> NoText, username |-> NoText, first_name |-> "",
     last_name |-> "", fecha_nacimiento |-> NoDate, edad |-> NoNumber,
     usuario_unico |-> NoText, pais |-> None, tipo_usuario |-> "estudiante",
     is_staff |-> FALSE, activo |-> TRUE, perfil_completo |-> FALSE,
     password |-> <<>>, is_active |-> TRUE]

\* Usuario.verificar_perfil_completo: all(campos_obligatorios)
verificar_perfil_completo(row) ==
    /\ ~Falsy(row.first_name)
    /\ ~Falsy(row.last_name)
    /\ row.fecha_nacimiento # NoDate
    /\ row.usuario_unico # NoText
    /\ ~Falsy(row.pais)

\* Usuario.save: the age from the birth date, then the flag
Usuario_save_keeps_flag(row) ==
    IF row.fecha_nacimiento # NoDate
    THEN [row EXCEPT !.edad = Edad(row.fecha_nacimiento)]
    ELSE row

Usuario_save(row) ==
    LET aged == IF row.fecha_nacimiento # NoDate
                THEN [row EXCEPT !.edad = Edad(row.fecha_nacimiento)]
                ELSE row
    IN  [aged EXCEPT !.perfil_completo = verificar_perfil_completo(aged)]

\* constraints of the usuarios table: username unique, usuario_unico unique
\* among the rows that have one, edad not negative
UsuarioConstraints(table, row) ==
    /\ ~ \E u \in table : u.id # row.id /\ u.username = row.username
    /\ row.usuario_unico # NoText =>
          ~ \E u \in table : u.id # row.id /\ u.usuario_unico = row.usuario_unico
    /\ row.fecha_nacimiento # NoDate => row.edad >= 0

\* INSERT of a Usuario row through Usuario.save
UsuarioInsert(db, row) ==
    LET new == [Usuario_save(row) EXCEPT !.id = db.ids.usuario]
    IN  IF ~UsuarioConstraints(db.usuarios, new) THEN Fail(db, "IntegrityError")
        ELSE Ok([db EXCEPT !.usuarios = @ \cup {new}, !.ids.usuario = @ + 1], new.id)

\* UPDATE of a Usuario row through Usuario.save
UsuarioUpdate(db, row) ==
    LET new == Usuario_save(row)
    IN  IF ~UsuarioConstraints(db.usuarios, new) THEN Fail(db, "IntegrityError")
        ELSE Ok([db EXCEPT !.usuarios = {u \in @ : u.id # row.id} \cup {new}], new.id)

\* Docente.objects.create: Docente.save makes the user an instructor first
DocenteInsert(db, row) ==
    LET u == Row(db.usuarios, row.usuario)
        ru == IF u.tipo_usuario # "docente"
              THEN UsuarioUpdate(db, [u EXCEPT !.tipo_usuario = "docente"])
              ELSE Ok(db, u.id)
        new == [row EXCEPT !.id = db.ids.docente]
    IN  IF ~ru.ok THEN ru
        ELSE IF \E d \in db.docentes : d.usuario = row.usuario
            THEN Fail(ru.c, "IntegrityError")
        ELSE Ok([ru.c EXCEPT !.docentes = @ \cup {new}, !.ids.docente = @ + 1], new.id)


\* Docente.perfil_docente_completo
perfil_docente_completo(d) ==
    /\ ~Falsy(d.especialidad)
    /\ ~Falsy(d.biografia_extendida)
    /\ d.experiencia_anos # NoNumber
    /\ Row(usuarios, d.usuario).perfil_completo

----------------------------------------------------------------------------
(* Serializers of the courses app *)

\* The part of the submitted data a ModelSerializer keeps: only the keys
\* that are writable fields of the serializer reach validated_data.
ValidatedData(data, fields) == [k \in (DOMAIN data) \cap fields |-> data[k]]

\* setattr(instance, attr, value) for every validated attribute
Assign(row, vd) == [k \in DOMAIN row |-> IF k \in DOMAIN vd THEN vd[k] ELSE row[k]]

\* LeccionSerializer.Meta.fields without the read-only ones: 'modulo' is not
\* a field of the serializer
LeccionSerializer_fields == {"titulo", "tipo_contenido", "video_url", "orden"}

\* ModuloSerializer.Meta.fields without the read-only ones: 'curso' is not
\* a field of the serializer
ModuloSerializer_fields == {"titulo", "orden"}

\* CursoCreateSerializer.Meta.fields
CursoCreateSerializer_fields ==
    {"titulo", "categoria", "docente_principal", "precio", "es_gratuito"}

\* CursoDetailSerializer.Meta.fields without the read-only ones
CursoDetailSerializer_fields == {"titulo", "precio", "es_gratuito"}

TipoContenido == {"video", "texto", "quiz", "proyecto"}

\* field validation of ModelSerializer: required fields present (unless
\* partial), text not blank, choices respected
LeccionSerializer_is_valid(data, partial) ==
    LET vd == ValidatedData(data, LeccionSerializer_fields)
    IN  /\ partial \/ "titulo" \in DOMAIN vd
        /\ "titulo" \in DOMAIN vd => vd.titulo # ""
        /\ "tipo_contenido" \in DOMAIN vd => vd.tipo_contenido \in TipoContenido
        /\ "orden" \in DOMAIN vd => vd.orden >= 0

ModuloSerializer_is_valid(data, partial) ==
    LET vd == ValidatedData(data, ModuloSerializer_fields)
    IN  /\ partial \/ "titulo" \in DOMAIN vd
        /\ "titulo" \in DOMAIN vd => vd.titulo # ""
        /\ "orden" \in DOMAIN vd => vd.orden >= 0

\* queryset of CursoCreateSerializer.docente_principal
DocentesElegibles ==
    {d \in docentes : Row(usuarios, d.usuario).activo
                      /\ Row(usuarios, d.usuario).perfil_completo}

\* CursoCreateSerializer.validate_docente_principal
validate_docente_principal(d) ==
    /\ Row(usuarios, d.usuario).activo
    /\ Row(usuarios, d.usuario).perfil_completo
    /\ perfil_docente_completo(d)

\* CursoCreateSerializer with a plain primary-key field for docente_principal
\* and no validate_docente_principal
CursoCreateSerializer_is_valid_any_docente(data, partial) ==
    LET vd == ValidatedData(data, CursoCreateSerializer_fields)
    IN  /\ partial \/ {"titulo", "categoria", "docente_principal"} \subseteq DOMAIN vd
        /\ "titulo" \in DOMAIN vd => vd.titulo # ""
        /\ "categoria" \in DOMAIN vd => vd.categoria \in categorias
        /\ "docente_principal" \in DOMAIN vd => Exists(docentes, vd.docente_principal)
        /\ "precio" \in DOMAIN vd => vd.precio >= 0

\* CursoCreateSerializer: required fields, the category and the instructor
\* are rows of their querysets, validate_docente_principal
CursoCreateSerializer_is_valid(data, partial) ==
    LET vd == ValidatedData(data, CursoCreateSerializer_fields)
    IN  /\ partial \/ {"titulo", "categoria", "docente_principal"} \subseteq DOMAIN vd
        /\ "titulo" \in DOMAIN vd => vd.titulo # ""
        /\ "categoria" \in DOMAIN vd => vd.categoria \in categorias
        /\ "docente_principal" \in DOMAIN vd =>
              /\ \E d \in DocentesElegibles : d.id = vd.docente_principal
              /\ validate_docente_principal(Row(docentes, vd.docente_principal))
        /\ "precio" \in DOMAIN vd => vd.precio >= 0

CursoDetailSerializer_is_valid(data, partial) ==
    LET vd == ValidatedData(data, CursoDetailSerializer_fields)
    IN  /\ partial \/ "titulo" \in DOMAIN vd
        /\ "titulo" \in DOMAIN vd => vd.titulo # ""

\* model defaults of the three tables
CursoDefaults ==
    [id |-> NoId, titulo |-> "", categoria |-> NoId, docente_principal |-> NoId,
     precio |-> 0, es_gratuito |-> TRUE]

ModuloDefaults == [id |-> NoId, curso |-> NoId, titulo |-> "", orden |-> 0]

LeccionDefaults ==
    [id |-> NoId, modulo |-> NoId, titulo |-> "", orden |-> 0,
     tipo_contenido |-> "video", video_url |-> None]

\* ModelSerializer.create: Model.objects.create(**validated_data)
CursoCreateSerializer_create(c, data) ==
    CursoInsert(c, Assign(CursoDefaults, ValidatedData(data, CursoCreateSerializer_fields)))

ModuloSerializer_create(c, data) ==
    ModuloInsert(c, Assign(ModuloDefaults, ValidatedData(data, ModuloSerializer_fields)))

LeccionSerializer_create(c, data) ==
    LeccionInsert(c, Assign(LeccionDefaults, ValidatedData(data, LeccionSerializer_fields)))

\* ModelSerializer.update: setattr for each validated attribute, then save()
CursoCreateSerializer_update(c, row, data) ==
    CursoUpdate(c, Assign(row, ValidatedData(data, CursoCreateSerializer_fields)))

CursoDetailSerializer_update(c, row, data) ==
    CursoUpdate(c, Assign(row, ValidatedData(data, CursoDetailSerializer_fields)))

ModuloSerializer_update(c, row, data) ==
    ModuloUpdate(c, Assign(row, ValidatedData(data, ModuloSerializer_fields)))

LeccionSerializer_update(c, row, data) ==
    LeccionUpdate(c, Assign(row, ValidatedData(data, LeccionSerializer_fields)))

\* ModuloSerializer(...).data: total_lecciones is a SerializerMethodField
\* whose method get_total_lecciones is not defined (the method is named
\* total_lecciones and the field assignment rebinds that name), so
\* representing any module raises AttributeError
ModuloSerializer_data_raises(m) == TRUE

\* LeccionSerializer(...).data: duracion_total_segundos likewise has no
\* get_duracion_total_segundos
LeccionSerializer_data_raises(l) == TRUE

\* CursoDetailSerializer(...).data: modulos = ModuloSerializer(many=True)
\* represents every module of the course
CursoDetailSerializer_data_raises(c, cursoId) ==
    \E m \in c.modulos : m.curso = cursoId /\ ModuloSerializer_data_raises(m)

\* dict with one more key: modulo_data['curso'] = curso.id
With(data, k, v) == [x \in (DOMAIN data) \cup {k} |-> IF x = k THEN v ELSE data[x]]

\* dict without a key: modulo_data.pop('lecciones', [])
Without(data, k) == [x \in (DOMAIN data) \ {k} |-> data[x]]

----------------------------------------------------------------------------
(* Composite-write coordinator: CursoViewSet.crear_completo and             *)
(* CursoViewSet.actualizar_completo                                         *)

\* outcome of the body of a `with transaction.atomic()` block
Done(c, status, n, curso) ==
    [raised |-> FALSE, c |-> c, status |-> status, n |-> n, curso |-> curso]
Raised(c, status, curso) ==
    [raised |-> TRUE, c |-> c, status |-> status, n |-> 0, curso |-> curso]

\* transaction.atomic(): an exception leaving the block rolls every write back
atomic_without_rollback(before, out) == out.c

atomic(before, out) == IF out.raised THEN before ELSE out.c

RECURSIVE CrearLecciones(_, _, _)
\* for leccion_data in lecciones_data: stamp the module id, validate, save
CrearLecciones(c, moduloId, lecciones_data) ==
    IF lecciones_data = <<>> THEN Ok(c, NoId)
    ELSE LET leccion_data == With(Head(lecciones_data), "modulo", moduloId)
         IN  IF ~LeccionSerializer_is_valid(leccion_data, FALSE)
                 THEN Fail(c, "ValidationError")
             ELSE LET r == LeccionSerializer_create(c, leccion_data)
                  IN  IF ~r.ok THEN r
                      ELSE CrearLecciones(r.c, moduloId, Tail(lecciones_data))

RECURSIVE CrearModulos(_, _, _)
\* for modulo_data in modulos_data: pop the lessons, stamp the course id,
\* validate and save the module, then its lessons; id counts modulos_creados
CrearModulos(c, cursoId, modulos_data) ==
    IF modulos_data = <<>> THEN Ok(c, 0)
    ELSE LET lecciones_data == Get(Head(modulos_data), "lecciones", <<>>)
             modulo_data == With(Without(Head(modulos_data), "lecciones"),
                                 "curso", cursoId)
         IN  IF ~ModuloSerializer_is_valid(modulo_data, FALSE)
                 THEN Fail(c, "ValidationError")
             ELSE LET r == ModuloSerializer_create(c, modulo_data)
                  IN  IF ~r.ok THEN r
                      ELSE LET rl == CrearLecciones(r.c, r.id, lecciones_data)
                           IN  IF ~rl.ok THEN rl
                               ELSE LET rest == CrearModulos(rl.c, cursoId,
                                                             Tail(modulos_data))
                                    IN  IF ~rest.ok THEN rest
                                        ELSE Ok(rest.c, rest.id + 1)

\* crear_completo without the two tests of the keys of the body
crear_completo_body_unchecked(c, data) ==
    LET curso_data == Get(data, "curso", <<>>)
    IN  IF ~CursoCreateSerializer_is_valid(curso_data, FALSE)
            THEN Raised(c, HTTP_400_BAD_REQUEST, NoId)
        ELSE LET rc == CursoCreateSerializer_create(c, curso_data)
                 rm == CrearModulos(rc.c, rc.id, Get(data, "modulos", <<>>))
             IN  IF ~rm.ok THEN Raised(rm.c, HTTP_400_BAD_REQUEST, NoId)
                 ELSE IF CursoDetailSerializer_data_raises(rm.c, rc.id)
                     THEN Raised(rm.c, HTTP_400_BAD_REQUEST, NoId)
                 ELSE Done(rm.c, HTTP_201_CREATED, rm.id, rc.id)

\* body of the atomic block of crear_completo
crear_completo_body(c, data) ==
    IF "curso" \notin DOMAIN data THEN Done(c, HTTP_400_BAD_REQUEST, 0, NoId)
    ELSE IF "modulos" \notin DOMAIN data THEN Done(c, HTTP_400_BAD_REQUEST, 0, NoId)
    ELSE IF ~CursoCreateSerializer_is_valid(data.curso, FALSE)
        THEN Raised(c, HTTP_400_BAD_REQUEST, NoId)
    ELSE LET rc == CursoCreateSerializer_create(c, data.curso)
             rm == CrearModulos(rc.c, rc.id, data.modulos)
         IN  IF ~rm.ok THEN Raised(rm.c, HTTP_400_BAD_REQUEST, NoId)
             ELSE IF CursoDetailSerializer_data_raises(rm.c, rc.id)
                 THEN Raised(rm.c, HTTP_400_BAD_REQUEST, NoId)
             ELSE Done(rm.c, HTTP_201_CREATED, rm.id, rc.id)

\* if 'modulos' in request.data: the module list is replaced only then
modulos_in_request_always(data) == TRUE

modulos_in_request(data) == "modulos" \in DOMAIN data

\* body of the atomic block of actualizar_completo
actualizar_completo_body(c, uuid, data) ==
    IF ~Exists(c.cursos, uuid) THEN Raised(c, HTTP_400_BAD_REQUEST, NoId)
    ELSE IF "curso" \in DOMAIN data /\ ~CursoCreateSerializer_is_valid(data.curso, TRUE)
        THEN Raised(c, HTTP_400_BAD_REQUEST, uuid)
    ELSE LET c1 == IF "curso" \in DOMAIN data
                   THEN CursoCreateSerializer_update(c, Row(c.cursos, uuid), data.curso).c
                   ELSE c
             rm == IF modulos_in_request(data)
                   THEN CrearModulos(DeleteModulos(c1, uuid), uuid,
                                     Get(data, "modulos", <<>>))
                   ELSE Ok(c1, 0)
         IN  IF ~rm.ok THEN Raised(rm.c, HTTP_400_BAD_REQUEST, uuid)
             ELSE IF CursoDetailSerializer_data_raises(rm.c, uuid)
                 THEN Raised(rm.c, HTTP_400_BAD_REQUEST, uuid)
             ELSE Done(rm.c, HTTP_200_OK, rm.id, uuid)

\* the catalog tables become those of c
Commit(c) ==
    /\ cursos' = c.cursos
    /\ modulos' = c.modulos
    /\ lecciones' = c.lecciones
    /\ ids' = c.ids

\* the id sequences of the nested tables are within the bounds of the model
Room == ids.modulo <= MaxModuloId + 1 /\ ids.leccion <= MaxLeccionId + 1

\* siblings of a submitted list with the same orden
DistinctOrden(items) ==
    \A i, j \in 1 .. Len(items) : i # j => items[i].orden # items[j].orden

RepeatsOrden(modulos_data) ==
    \/ ~DistinctOrden(modulos_data)
    \/ \E i \in 1 .. Len(modulos_data) :
          ~DistinctOrden(Get(modulos_data[i], "lecciones", <<>>))

\* the response of a composite write; undone tells that the exception found
\* uncommitted changes, which the rollback discarded
\* keys: the top-level keys the request body had
\* repeats: the module list of the request repeated an orden among siblings
CompositeResponse(op, data, out) ==
    [op |-> op, status |-> out.status, n |-> out.n, curso |-> out.curso,
     undone |-> out.raised /\ out.c # Catalog, keys |-> DOMAIN data,
     repeats |-> RepeatsOrden(Get(data, "modulos", <<>>)), request |-> <<>>]

\* POST cursos/crear-completo/
crear_completo(data) ==
    /\ ids.curso <= MaxCursoId /\ Room
    /\ LET out == crear_completo_body(Catalog, data)
       IN  /\ Commit(atomic(Catalog, out))
           /\ response' = CompositeResponse("crear_completo", data, out)
    /\ UNCHANGED <<usuarios, docentes, categorias, inflight>>

\* PUT/PATCH cursos/{uuid}/actualizar-completo/
actualizar_completo(uuid, data) ==
    /\ Room
    /\ LET out == actualizar_completo_body(Catalog, uuid, data)
       IN  /\ Commit(atomic(Catalog, out))
           /\ response' = CompositeResponse("actualizar_completo", data, out)
    /\ UNCHANGED <<usuarios, docentes, categorias, inflight>>

----------------------------------------------------------------------------
(* Plain REST handlers and admin forms of the courses app *)

\* request: the request body (form data) the response answers; curso: the id
\* of the row the request created or addressed
SimpleResponse(op, status, id, data) ==
    [op |-> op, status |-> status, n |-> 0, curso |-> id, undone |-> FALSE,
     keys |-> {}, repeats |-> FALSE, request |-> data]

\* POST cursos/ : CursoViewSet.create with CursoCreateSerializer
CursoCreate(data) ==
    /\ ids.curso <= MaxCursoId
    /\ IF ~CursoCreateSerializer_is_valid(data, FALSE)
       THEN /\ response' = SimpleResponse("curso_create", HTTP_400_BAD_REQUEST, NoId, data)
            /\ UNCHANGED <<cursos, modulos, lecciones, ids>>
       ELSE LET r == CursoCreateSerializer_create(Catalog, data)
            IN  /\ Commit(r.c)
                /\ response' = SimpleResponse("curso_create", HTTP_201_CREATED, r.id, data)
    /\ UNCHANGED <<usuarios, docentes, categorias, inflight>>

\* PATCH cursos/{uuid}/ : CursoViewSet.partial_update with CursoDetailSerializer
CursoPartialUpdate(uuid, data) ==
    /\ Exists(cursos, uuid)
    /\ IF ~CursoDetailSerializer_is_valid(data, TRUE)
       THEN /\ response' = SimpleResponse("curso_partial_update", HTTP_400_BAD_REQUEST, uuid, data)
            /\ UNCHANGED <<cursos, modulos, lecciones, ids>>
       ELSE LET r == CursoDetailSerializer_update(Catalog, Row(cursos, uuid), data)
            IN  /\ Commit(r.c)
                /\ response' = SimpleResponse("curso_partial_update",
                                  IF CursoDetailSerializer_data_raises(r.c, uuid)
                                  THEN HTTP_500_INTERNAL_SERVER_ERROR
                                  ELSE HTTP_200_OK, uuid, data)
    /\ UNCHANGED <<usuarios, docentes, categorias, inflight>>

\* PATCH modulos/{id}/ : ModuloViewSet.partial_update; neither an
\* IntegrityError of the save nor the AttributeError of serializer.data, which
\* is read after the save, is caught by the view
ModuloPartialUpdate(id, data) ==
    /\ Exists(modulos, id)
    /\ IF ~ModuloSerializer_is_valid(data, TRUE)
       THEN /\ response' = SimpleResponse("modulo_partial_update", HTTP_400_BAD_REQUEST, id, data)
            /\ UNCHANGED <<cursos, modulos, lecciones, ids>>
       ELSE LET r == ModuloSerializer_update(Catalog, Row(modulos, id), data)
            IN  /\ Commit(r.c)
                /\ response' = SimpleResponse("modulo_partial_update",
                                  IF r.ok /\ ~ModuloSerializer_data_raises(Row(r.c.modulos, id))
                                  THEN HTTP_200_OK
                                  ELSE HTTP_500_INTERNAL_SERVER_ERROR, id, data)
    /\ UNCHANGED <<usuarios, docentes, categorias, inflight>>

\* PATCH lecciones/{id}/ : LeccionViewSet.partial_update
LeccionPartialUpdate(id, data) ==
    /\ Exists(lecciones, id)
    /\ IF ~LeccionSerializer_is_valid(data, TRUE)
       THEN /\ response' = SimpleResponse("leccion_partial_update", HTTP_400_BAD_REQUEST, id, data)
            /\ UNCHANGED <<cursos, modulos, lecciones, ids>>
       ELSE LET r == LeccionSerializer_update(Catalog, Row(lecciones, id), data)
            IN  /\ Commit(r.c)
                /\ response' = SimpleResponse("leccion_partial_update",
                                  IF r.ok /\ ~LeccionSerializer_data_raises(Row(r.c.lecciones, id))
                                  THEN HTTP_200_OK
                                  ELSE HTTP_500_INTERNAL_SERVER_ERROR, id, data)
    /\ UNCHANGED <<usuarios, docentes, categorias, inflight>>

\* ModuloAdmin / ModuloInline add form: the form's validate_unique rejects a
\* duplicate (curso, orden) before the save
AdminModuloAdd(data) ==
    /\ ids.modulo <= MaxModuloId
    /\ LET row == Assign(ModuloDefaults, data)
           valid == /\ Exists(cursos, row.curso)
                    /\ row.titulo # ""
                    /\ ModuloUnique(modulos, row)
           r == ModuloInsert(Catalog, row)
       IN  IF valid /\ r.ok
           THEN Commit(r.c) /\ response' = SimpleResponse("admin_modulo_add", HTTP_200_OK, r.id, data)
           ELSE /\ response' = SimpleResponse("admin_modulo_add", HTTP_400_BAD_REQUEST, NoId, data)
                /\ UNCHANGED <<cursos, modulos, lecciones, ids>>
    /\ UNCHANGED <<usuarios, docentes, categorias, inflight>>

\* LeccionAdmin / LeccionInline add form
AdminLeccionAdd(data) ==
    /\ ids.leccion <= MaxLeccionId
    /\ LET row == Assign(LeccionDefaults, data)
           valid == /\ Exists(modulos, row.modulo)
                    /\ row.titulo # ""
                    /\ row.tipo_contenido \in TipoContenido
                    /\ LeccionUnique(lecciones, row)
           r == LeccionInsert(Catalog, row)
       IN  IF valid /\ r.ok
           THEN Commit(r.c) /\ response' = SimpleResponse("admin_leccion_add", HTTP_200_OK, r.id, data)
           ELSE /\ response' = SimpleResponse("admin_leccion_add", HTTP_400_BAD_REQUEST, NoId, data)
                /\ UNCHANGED <<cursos, modulos, lecciones, ids>>
    /\ UNCHANGED <<usuarios, docentes, categorias, inflight>>

----------------------------------------------------------------------------
(* Serializers and views of the users app *)

\* commit of the tables of the users app
CommitUsers(db) ==
    /\ usuarios' = db.usuarios
    /\ docentes' = db.docentes
    /\ ids' = db.ids

\* EmailField: a local part and a domain around one '@'
EmailFormat(t) ==
    /\ Cardinality({i \in 1 .. Len(t) : t[i] = "@"}) = 1
    /\ t[1] # "@" /\ t[Len(t)] # "@"

\* django.contrib.auth.password_validation.validate_password with the
\* validators of the project template: minimum length, not entirely numeric
validate_password(password) ==
    Len(password) >= 8 /\ password # "12345678"

\* the password checks the registration serializers share: min_length=8 of
\* the field, then validate(): confirmation and strength
PasswordsValid(data) ==
    /\ {"password", "confirm_password"} \subseteq DOMAIN data
    /\ Len(data.password) >= 8
    /\ data.password = data.confirm_password
    /\ validate_password(data.password)

\* RegistroInicialSerializer.validate_email: the address as submitted must
\* not be stored already
RegistroInicialSerializer_validate_email(value) ==
    ~ \E u \in usuarios : u.email = value

RegistroInicialSerializer_is_valid(data) ==
    /\ "email" \in DOMAIN data
    /\ data.email # NoText => EmailFormat(data.email)
    /\ RegistroInicialSerializer_validate_email(data.email)
    /\ PasswordsValid(data)

RECURSIVE username_loop_from_two(_, _, _)
username_loop_from_two(table, original_username, counter) ==
    IF ~ \E u \in table : u.username = original_username THEN original_username
    ELSE LET username == original_username \o str(counter + 1)
         IN  IF \E u \in table : u.username = username
             THEN username_loop_from_two(table, original_username, counter + 1)
             ELSE username

RECURSIVE username_loop(_, _, _)
\* while Usuario.objects.filter(username=username).exists():
\*     username = f"{original_username}{counter}"; counter += 1
\* entered with username = original_username and the next counter
username_loop(table, original_username, counter) ==
    IF ~ \E u \in table : u.username = original_username THEN original_username
    ELSE LET username == original_username \o str(counter)
         IN  IF \E u \in table : u.username = username
             THEN username_loop(table, original_username, counter + 1)
             ELSE username

\* RegistroInicialSerializer.create; validate_email has lowercased the email
RegistroInicialSerializer_create(db, data) ==
    LET email == lower(data.email)
        username == username_loop(db.usuarios, lower(split_first(email)), 1)
    IN  UsuarioInsert(db, [UsuarioDefaults EXCEPT !.username = username,
                                                  !.password = make_password(data.password),
                                                  !.perfil_completo = FALSE,
                                                  !.email = email])

\* POST auth/registro/ : RegistroInicialView.create
RegistroInicial(data) ==
    /\ ids.usuario <= MaxUsuarioId
    /\ IF ~RegistroInicialSerializer_is_valid(data)
       THEN /\ response' = SimpleResponse("registro", HTTP_400_BAD_REQUEST, NoId, data)
            /\ UNCHANGED <<usuarios, docentes, ids>>
       ELSE LET r == RegistroInicialSerializer_create(UsersDb, data)
            IN  /\ CommitUsers(r.c)
                /\ response' = SimpleResponse("registro",
                                  IF r.ok THEN HTTP_201_CREATED
                                  ELSE HTTP_500_INTERNAL_SERVER_ERROR, r.id, data)
    /\ UNCHANGED <<categorias, cursos, modulos, lecciones, inflight>>

\* writable fields of CompletarPerfilSerializer that the model keeps
CompletarPerfilSerializer_fields ==
    {"first_name", "last_name", "fecha_nacimiento", "usuario_unico", "pais"}

\* writable fields of PerfilUpdateSerializer that the model keeps:
\* usuario_unico is not among them
PerfilUpdateSerializer_fields ==
    {"first_name", "last_name", "fecha_nacimiento", "pais"}

\* CompletarPerfilSerializer.validate_usuario_unico: the value as submitted
\* is not the handle of another user, and matches the pattern
validate_usuario_unico(instance, value) ==
    /\ ~ \E u \in usuarios : u.id # instance.id /\ u.usuario_unico = value
    /\ matches_handle_pattern(value)

\* CompletarPerfilSerializer.validate_fecha_nacimiento: not in the future,
\* at least 13 years old
CompletarPerfilSerializer_validate_fecha_nacimiento(value) ==
    ~DateAfter(value, Today) /\ Edad(value) >= 13

CompletarPerfilSerializer_is_valid(instance, data, partial) ==
    LET vd == ValidatedData(data, CompletarPerfilSerializer_fields)
    IN  /\ partial \/ CompletarPerfilSerializer_fields \subseteq DOMAIN vd
        /\ "usuario_unico" \in DOMAIN vd => validate_usuario_unico(instance, vd.usuario_unico)
        /\ "fecha_nacimiento" \in DOMAIN vd =>
              CompletarPerfilSerializer_validate_fecha_nacimiento(vd.fecha_nacimiento)
        /\ ~instance.perfil_completo

\* what reaches validated_data: validate_usuario_unico returns value.lower()
CompletarPerfilSerializer_validated(data) ==
    LET vd == ValidatedData(data, CompletarPerfilSerializer_fields)
    IN  [k \in DOMAIN vd |-> IF k = "usuario_unico" THEN lower(vd[k]) ELSE vd[k]]

\* PUT/PATCH completar-perfil/ : CompletarPerfilView.update
CompletarPerfil(user, partial, data) ==
    /\ Exists(usuarios, user)
    /\ LET instance == Row(usuarios, user)
       IN  IF ~partial /\ instance.perfil_completo
           THEN /\ response' = SimpleResponse("completar_perfil", HTTP_400_BAD_REQUEST, user, data)
                /\ UNCHANGED <<usuarios, docentes, ids>>
           ELSE IF ~CompletarPerfilSerializer_is_valid(instance, data, partial)
           THEN /\ response' = SimpleResponse("completar_perfil", HTTP_400_BAD_REQUEST, user, data)
                /\ UNCHANGED <<usuarios, docentes, ids>>
           ELSE LET r == UsuarioUpdate(UsersDb,
                            Assign(instance, CompletarPerfilSerializer_validated(data)))
                IN  /\ CommitUsers(r.c)
                    /\ response' = SimpleResponse("completar_perfil",
                                      IF r.ok THEN HTTP_200_OK
                                      ELSE HTTP_500_INTERNAL_SERVER_ERROR, user, data)
    /\ UNCHANGED <<categorias, cursos, modulos, lecciones, inflight>>

\* PerfilUpdateSerializer: no field is required; a birth date must not be in
\* the future
PerfilUpdateSerializer_is_valid(data) ==
    LET vd == ValidatedData(data, PerfilUpdateSerializer_fields)
    IN  "fecha_nacimiento" \in DOMAIN vd => ~DateAfter(vd.fecha_nacimiento, Today)

\* PUT/PATCH perfil/ : PerfilView.update
PerfilUpdate(user, data) ==
    /\ Exists(usuarios, user)
    /\ IF ~PerfilUpdateSerializer_is_valid(data)
       THEN /\ response' = SimpleResponse("perfil_update", HTTP_400_BAD_REQUEST, user, data)
            /\ UNCHANGED <<usuarios, docentes, ids>>
       ELSE LET r == UsuarioUpdate(UsersDb,
                        Assign(Row(usuarios, user),
                               ValidatedData(data, PerfilUpdateSerializer_fields)))
            IN  /\ CommitUsers(r.c)
                /\ response' = SimpleResponse("perfil_update",
                                  IF r.ok THEN HTTP_200_OK
                                  ELSE HTTP_500_INTERNAL_SERVER_ERROR, user, data)
    /\ UNCHANGED <<categorias, cursos, modulos, lecciones, inflight>>

\* DocenteCreateSerializer.validate_fecha_nacimiento: at least 18 years old
DocenteCreateSerializer_validate_fecha_nacimiento(value) ==
    ~DateAfter(value, Today) /\ Edad(value) >= 18

\* DocenteCreateSerializer: every listed field is required and not blank;
\* email and username as submitted must not be stored already
DocenteCreateSerializer_is_valid(data) ==
    /\ {"email", "username", "first_name", "last_name", "fecha_nacimiento", "pais",
        "especialidad", "biografia_extendida", "experiencia_anos"} \subseteq DOMAIN data
    /\ EmailFormat(data.email)
    /\ data.username # NoText
    /\ ~Falsy(data.first_name) /\ ~Falsy(data.last_name) /\ ~Falsy(data.pais)
    /\ ~Falsy(data.especialidad) /\ ~Falsy(data.biografia_extendida)
    /\ data.experiencia_anos \in 0 .. 60
    /\ ~ \E u \in usuarios : u.email = data.email
    /\ ~ \E u \in usuarios : u.username = data.username
    /\ DocenteCreateSerializer_validate_fecha_nacimiento(data.fecha_nacimiento)
    /\ PasswordsValid(data)

\* DocenteCreateSerializer.create without usuario_unico=validated_data['username']
DocenteCreateSerializer_create_unseeded(db, data) ==
    LET ru == UsuarioInsert(db, [UsuarioDefaults EXCEPT
                 !.email = lower(data.email), !.username = lower(data.username),
                 !.first_name = data.first_name, !.last_name = data.last_name,
                 !.fecha_nacimiento = data.fecha_nacimiento, !.pais = data.pais,
                 !.tipo_usuario = "docente", !.perfil_completo = TRUE,
                 !.password = make_password(data.password)])
    IN  IF ~ru.ok THEN ru
        ELSE DocenteInsert(ru.c, [id |-> NoId, usuario |-> ru.id,
                                  especialidad |-> data.especialidad,
                                  biografia_extendida |-> data.biografia_extendida,
                                  experiencia_anos |-> data.experiencia_anos])

\* DocenteCreateSerializer.create: the user, then the docente, in one
\* transaction; email and username were lowercased by their validators
DocenteCreateSerializer_create(db, data) ==
    LET username == lower(data.username)
        ru == UsuarioInsert(db, [UsuarioDefaults EXCEPT
                 !.email = lower(data.email), !.username = username,
                 !.first_name = data.first_name, !.last_name = data.last_name,
                 !.fecha_nacimiento = data.fecha_nacimiento, !.pais = data.pais,
                 !.tipo_usuario = "docente", !.perfil_completo = TRUE,
                 !.usuario_unico = username,
                 !.password = make_password(data.password)])
    IN  IF ~ru.ok THEN ru
        ELSE DocenteInsert(ru.c, [id |-> NoId, usuario |-> ru.id,
                                  especialidad |-> data.especialidad,
                                  biografia_extendida |-> data.biografia_extendida,
                                  experiencia_anos |-> data.experiencia_anos])

HTTP_403_FORBIDDEN == 403
HTTP_404_NOT_FOUND == 404

\* POST admin/docentes/crear/ : DocenteCreateView.create (IsAdminUser)
DocenteCreate(user, data) ==
    /\ Exists(usuarios, user)
    /\ ids.usuario <= MaxUsuarioId
    /\ IF ~Row(usuarios, user).is_staff
       THEN /\ response' = SimpleResponse("docente_create", HTTP_403_FORBIDDEN, NoId, data)
            /\ UNCHANGED <<usuarios, docentes, ids>>
       ELSE IF ~DocenteCreateSerializer_is_valid(data)
       THEN /\ response' = SimpleResponse("docente_create", HTTP_400_BAD_REQUEST, NoId, data)
            /\ UNCHANGED <<usuarios, docentes, ids>>
       ELSE LET r == DocenteCreateSerializer_create(UsersDb, data)
            IN  IF r.ok
                THEN /\ CommitUsers(r.c)
                     /\ response' = SimpleResponse("docente_create", HTTP_201_CREATED,
                                                   r.id, data)
                ELSE /\ response' = SimpleResponse("docente_create",
                                       HTTP_500_INTERNAL_SERVER_ERROR, NoId, data)
                     /\ UNCHANGED <<usuarios, docentes, ids>>
    /\ UNCHANGED <<categorias, cursos, modulos, lecciones, inflight>>

\* DELETE admin/docentes/{id}/ as the DestroyModelMixin would do it: the row
\* is deleted
DocenteDelete_hard(user, id) ==
    /\ Exists(usuarios, user)
    /\ IF ~Row(usuarios, user).is_staff
       THEN /\ response' = SimpleResponse("docente_delete", HTTP_403_FORBIDDEN, id, <<>>)
            /\ UNCHANGED <<usuarios, docentes, ids>>
       ELSE IF ~Exists(docentes, id)
       THEN /\ response' = SimpleResponse("docente_delete", HTTP_404_NOT_FOUND, id, <<>>)
            /\ UNCHANGED <<usuarios, docentes, ids>>
       ELSE /\ docentes' = {d \in docentes : d.id # id}
            /\ response' = SimpleResponse("docente_delete", HTTP_200_OK, id, <<>>)
            /\ UNCHANGED <<usuarios, ids>>
    /\ UNCHANGED <<categorias, cursos, modulos, lecciones, inflight>>

\* DELETE admin/docentes/{id}/ : DocenteDetailView.delete (IsAdminUser)
DocenteDelete(user, id) ==
    /\ Exists(usuarios, user)
    /\ IF ~Row(usuarios, user).is_staff
       THEN /\ response' = SimpleResponse("docente_delete", HTTP_403_FORBIDDEN, id, <<>>)
            /\ UNCHANGED <<usuarios, docentes, ids>>
       ELSE IF ~Exists(docentes, id)
       THEN /\ response' = SimpleResponse("docente_delete", HTTP_404_NOT_FOUND, id, <<>>)
            /\ UNCHANGED <<usuarios, docentes, ids>>
       ELSE LET u == Row(usuarios, Row(docentes, id).usuario)
                r == UsuarioUpdate(UsersDb, [u EXCEPT !.activo = FALSE])
            IN  /\ CommitUsers(r.c)
                /\ response' = SimpleResponse("docente_delete", HTTP_200_OK, id, <<>>)
    /\ UNCHANGED <<categorias, cursos, modulos, lecciones, inflight>>

----------------------------------------------------------------------------
(* Requests of the catalog *)

\* a dict with some of the keys of a record
Restrict(f, ks) == [k \in ks |-> f[k]]

Ordenes == 1 .. 2

LeccionVideo(o) ==
    [titulo |-> "l", orden |-> o, tipo_contenido |-> "video", video_url |-> "u"]

ModuloData(o, lecciones_data) ==
    [titulo |-> "m", orden |-> o, lecciones |-> lecciones_data]

\* module lists of a composite request: empty; one module; two modules with
\* two and one lessons; a module repeating the orden of the first; a module
\* whose lessons share an orden; a module without lessons key and title
ModulosData ==
    {<<>>,
     <<ModuloData(1, <<LeccionVideo(1)>>)>>,
     <<ModuloData(1, <<LeccionVideo(1), LeccionVideo(2)>>),
       ModuloData(2, <<LeccionVideo(1)>>)>>,
     <<ModuloData(1, <<>>), ModuloData(1, <<LeccionVideo(1)>>)>>,
     <<ModuloData(2, <<LeccionVideo(1), LeccionVideo(1)>>)>>,
     <<ModuloData(1, <<>>), [titulo |-> "", orden |-> 2]>>}

CursoFull(docente, precio, gratis) ==
    [titulo |-> "t", categoria |-> 1, docente_principal |-> docente,
     precio |-> precio, es_gratuito |-> gratis]

\* course payloads of a create: valid ones, an ineligible instructor, a
\* missing category, a blank title, no es_gratuito key
CursoCreateData ==
    {CursoFull(1, p, g) : p \in {0, 10}, g \in BOOLEAN}
    \cup {CursoFull(2, 10, FALSE),
          [CursoFull(1, 10, FALSE) EXCEPT !.categoria = 9],
          [CursoFull(1, 10, FALSE) EXCEPT !.titulo = ""],
          Restrict(CursoFull(1, 10, FALSE),
                   {"titulo", "categoria", "docente_principal", "precio"})}

\* course payloads of a partial update
CursoPartialData ==
    {[precio |-> 10, es_gratuito |-> FALSE], [es_gratuito |-> TRUE],
     [precio |-> 10], [precio |-> 0], [es_gratuito |-> FALSE],
     [docente_principal |-> 2], [titulo |-> ""]}

\* request bodies of the composite writes: each top-level key may be absent
CompletoData(cursoData, modulosData) ==
    {[curso |-> k, modulos |-> ms] : k \in cursoData, ms \in modulosData}
    \cup {[curso |-> k] : k \in cursoData}
    \cup {[modulos |-> ms] : ms \in modulosData}
    \cup {<<>>}

CursoUuids == 1 .. (MaxCursoId + 1)

ModuloAddData ==
    [curso : 1 .. MaxCursoId, titulo : {"m"}, orden : Ordenes]

LeccionAddData ==
    [modulo : 1 .. MaxModuloId, titulo : {"l"}, orden : Ordenes,
     tipo_contenido : {"video"}, video_url : {"u"}]

ModuloPartialData == {[orden |-> o] : o \in Ordenes}

LeccionPartialData == {[orden |-> o] : o \in Ordenes}

----------------------------------------------------------------------------
(* The catalog as a state machine *)

\* the superuser of the installation, made with createsuperuser
AdminFixture ==
    [UsuarioDefaults EXCEPT !.id = 1, !.email = <<"r", "@", "x">>,
                            !.username = <<"a">>, !.is_staff = TRUE,
                            !.password = make_password("Xk7mq2pw"),
                            !.tipo_usuario = "admin"]

\* the user row of an instructor created through DocenteCreate
DocenteUsuarioFixture(id, username, active) ==
    Usuario_save([UsuarioDefaults EXCEPT
        !.id = id, !.email = username \o <<"@", "x">>, !.username = username,
        !.first_name = "n", !.last_name = "a", !.fecha_nacimiento = <<1990, 1, 1>>,
        !.usuario_unico = username, !.pais = "p", !.tipo_usuario = "docente",
        !.password = make_password("Xk7mq2pw"), !.activo = active])

\* a database in which the administrator has created two instructors through
\* the API and deactivated the second one; the catalog is empty
InitCatalog ==
    /\ usuarios = {AdminFixture,
                   DocenteUsuarioFixture(2, <<"b">>, TRUE),
                   DocenteUsuarioFixture(3, <<"d">>, FALSE)}
    /\ docentes = {[id |-> 1, usuario |-> 2, especialidad |-> "e",
                    biografia_extendida |-> "b", experiencia_anos |-> 5],
                   [id |-> 2, usuario |-> 3, especialidad |-> "e",
                    biografia_extendida |-> "b", experiencia_anos |-> 5]}
    /\ categorias = {1}
    /\ cursos = {} /\ modulos = {} /\ lecciones = {}
    /\ ids = [curso |-> 1, modulo |-> 1, leccion |-> 1, usuario |-> 4, docente |-> 3]
    /\ response = SimpleResponse("none", HTTP_200_OK, NoId, <<>>)
    /\ inflight = {}

\* bodies of crear_completo: a valid course with each module list; an
\* ineligible instructor; a missing key; an empty body
CatalogCrearData ==
    {[curso |-> CursoFull(1, 10, FALSE), modulos |-> ms] : ms \in ModulosData}
    \cup {[curso |-> CursoFull(2, 10, FALSE), modulos |-> <<>>],
          [curso |-> CursoFull(1, 10, FALSE)], [modulos |-> <<>>], <<>>}

\* bodies of actualizar_completo: each module list with and without a course
\* payload; a course payload alone, valid or not; an empty body
CatalogActualizarData ==
    {[curso |-> [es_gratuito |-> TRUE], modulos |-> ms] : ms \in ModulosData}
    \cup {[modulos |-> ms] : ms \in ModulosData}
    \cup {[curso |-> [es_gratuito |-> TRUE]], [curso |-> [docente_principal |-> 2]], <<>>}

\* lesson forms of SpecCatalog: the first lesson of a module
CatalogLeccionAddData == {d \in LeccionAddData : d.orden = 1}

NextCatalog ==
    \/ \E data \in CatalogCrearData : crear_completo(data)
    \/ \E uuid \in 1 .. MaxCursoId, data \in CatalogActualizarData :
          actualizar_completo(uuid, data)
    \/ actualizar_completo(MaxCursoId + 1, [modulos |-> <<>>])
    \/ \E data \in ModuloAddData : AdminModuloAdd(data)
    \/ \E data \in CatalogLeccionAddData : AdminLeccionAdd(data)

SpecCatalog == InitCatalog /\ [][NextCatalog]_vars

----------------------------------------------------------------------------
(* Properties of the composite-write coordinator *)

ModulosOf(table, cursoId) == {m \in table : m.curso = cursoId}
LeccionesOf(mods, table) == {l \in table : \E m \in mods : l.modulo = m.id}

\* every module and lesson of the list passes the field validation
WellFormed(modulos_data) ==
    \A i \in 1 .. Len(modulos_data) :
        /\ ModuloSerializer_is_valid(Without(modulos_data[i], "lecciones"), FALSE)
        /\ \A j \in 1 .. Len(Get(modulos_data[i], "lecciones", <<>>)) :
              LeccionSerializer_is_valid(modulos_data[i].lecciones[j], FALSE)

RECURSIVE TotalLecciones(_)
TotalLecciones(modulos_data) ==
    IF modulos_data = <<>> THEN 0
    ELSE Len(Get(Head(modulos_data), "lecciones", <<>>))
         + TotalLecciones(Tail(modulos_data))

\* the modules of course k in the primed state are those of the list, each
\* with the lessons nested under it
HoldsList(k, modulos_data) ==
    /\ Cardinality(ModulosOf(modulos', k)) = Len(modulos_data)
    /\ Cardinality(LeccionesOf(ModulosOf(modulos', k), lecciones'))
          = TotalLecciones(modulos_data)
    /\ \A i \in 1 .. Len(modulos_data) :
          \E m \in ModulosOf(modulos', k) :
              /\ m.orden = modulos_data[i].orden
              /\ Cardinality({l \in lecciones' : l.modulo = m.id})
                    = Len(Get(modulos_data[i], "lecciones", <<>>))

\* C1: a crear_completo call that does not answer 201 leaves the Curso,
\* Modulo and Leccion tables exactly as they were before the call.
C1_CrearCompletoAllOrNothing ==
    [][(response'.op = "crear_completo" /\ response'.status # HTTP_201_CREATED)
        => UNCHANGED <<cursos, modulos, lecciones>>]_vars

\* a crear_completo call failed after the course row had been written
C1_Witness ==
    /\ response.op = "crear_completo"
    /\ response.status = HTTP_400_BAD_REQUEST
    /\ response.undone

\* C2: a crear_completo request with a valid course payload and pairwise
\* distinct orden values answers 201 and persists one new course with the
\* listed modules and lessons, and reports the number of modules persisted.
C2_ValidRequestCreatesAll ==
    [][response'.op = "crear_completo" =>
        \A data \in CatalogCrearData :
            ( /\ {"curso", "modulos"} \subseteq DOMAIN data
              /\ CursoCreateSerializer_is_valid(data.curso, FALSE)
              /\ WellFormed(data.modulos)
              /\ ~RepeatsOrden(data.modulos)
              /\ crear_completo(data) )
            => /\ response'.status = HTTP_201_CREATED
               /\ Cardinality(cursos' \ cursos) = 1
               /\ \E k \in cursos' \ cursos : k.id = response'.curso
               /\ HoldsList(response'.curso, data.modulos)
               /\ response'.n = Cardinality(ModulosOf(modulos', response'.curso))]_vars

\* C4: actualizar_completo on an existing course with a valid 'modulos' list
\* answers 200; afterwards no module or lesson the course had before exists
\* and the modules of the course are those of the list.
C4_ReplaceInstallsList ==
    [][response'.op = "actualizar_completo" =>
        \A uuid \in CursoUuids, data \in CatalogActualizarData :
            ( /\ Exists(cursos, uuid)
              /\ "modulos" \in DOMAIN data
              /\ WellFormed(data.modulos)
              /\ ~RepeatsOrden(data.modulos)
              /\ "curso" \in DOMAIN data => CursoCreateSerializer_is_valid(data.curso, TRUE)
              /\ actualizar_completo(uuid, data) )
            => /\ response'.status = HTTP_200_OK
               /\ \A m \in ModulosOf(modulos, uuid) : ~Exists(modulos', m.id)
               /\ \A l \in LeccionesOf(ModulosOf(modulos, uuid), lecciones) :
                     ~Exists(lecciones', l.id)
               /\ HoldsList(uuid, data.modulos)]_vars

\* C5: an actualizar_completo call that does not answer 200 leaves the course,
\* its modules and their lessons exactly as they were before the call.
C5_ActualizarCompletoAtomic ==
    [][(response'.op = "actualizar_completo" /\ response'.status # HTTP_200_OK)
        => UNCHANGED <<cursos, modulos, lecciones>>]_vars

\* a call with both keys failed after the course had been updated and its
\* modules deleted; the course still has its modules
C5_Witness ==
    /\ response.op = "actualizar_completo"
    /\ response.keys = {"curso", "modulos"}
    /\ response.status = HTTP_400_BAD_REQUEST
    /\ response.undone
    /\ ModulosOf(modulos, response.curso) # {}

ChangedFields(old, new) == {k \in DOMAIN old : old[k] # new[k]}

\* an actualizar_completo call on course uuid changes no module, no lesson
\* and no other course, and of the course only the fields in `allowed`
OnlyCursoFields(uuid, allowed) ==
    /\ UNCHANGED <<modulos, lecciones>>
    /\ {c.id : c \in cursos'} = {c.id : c \in cursos}
    /\ \A c \in cursos : c.id # uuid => c \in cursos'
    /\ Exists(cursos, uuid) =>
          ChangedFields(Row(cursos, uuid), Row(cursos', uuid)) \subseteq allowed

\* C6 as stated: without a 'modulos' key, modules and lessons are unchanged
\* and only the fields named in the 'curso' payload may change.
C6_OnlyNamedFields ==
    [][response'.op = "actualizar_completo" =>
        \A uuid \in CursoUuids, data \in CatalogActualizarData :
            ("modulos" \notin DOMAIN data /\ actualizar_completo(uuid, data))
            => OnlyCursoFields(uuid, DOMAIN Get(data, "curso", <<>>))]_vars

\* C6: without a 'modulos' key, modules and lessons are unchanged; of the
\* course only the fields named in the 'curso' payload may change, and
\* precio, which the save sets to zero when the course is free.
C6_NoModulosKeyKeepsModules ==
    [][response'.op = "actualizar_completo" =>
        \A uuid \in CursoUuids, data \in CatalogActualizarData :
            ("modulos" \notin DOMAIN data /\ actualizar_completo(uuid, data))
            => OnlyCursoFields(uuid,
                  DOMAIN Get(data, "curso", <<>>)
                  \cup (IF Row(cursos', uuid).es_gratuito THEN {"precio"} ELSE {}))]_vars

\* a call with only a 'curso' key was made on a course that has modules
C6_Witness ==
    /\ response.op = "actualizar_completo"
    /\ response.keys = {"curso"}
    /\ response.undone
    /\ ModulosOf(modulos, response.curso) # {}

----------------------------------------------------------------------------
(* The orden of siblings *)

\* module lists for the orden of siblings: two modules in order, a module
\* repeating the orden of the first, a module whose lessons share an orden
OrdenModulosData == {ms \in ModulosData : Len(ms) = 2 \/ RepeatsOrden(ms)}

NextOrden ==
    \/ CursoCreate(CursoFull(1, 10, FALSE))
    \/ \E ms \in OrdenModulosData :
          crear_completo([curso |-> CursoFull(1, 10, FALSE), modulos |-> ms])
    \/ \E uuid \in 1 .. MaxCursoId, ms \in OrdenModulosData :
          actualizar_completo(uuid, [modulos |-> ms])
    \/ \E data \in ModuloAddData : AdminModuloAdd(data)
    \/ \E data \in LeccionAddData : AdminLeccionAdd(data)
    \/ \E id \in 1 .. MaxModuloId, data \in ModuloPartialData : ModuloPartialUpdate(id, data)
    \/ \E id \in 1 .. MaxLeccionId, data \in LeccionPartialData : LeccionPartialUpdate(id, data)

SpecOrden == InitCatalog /\ [][NextOrden]_vars

UniqueOrden ==
    /\ \A m1, m2 \in modulos :
          (m1.curso = m2.curso /\ m1.orden = m2.orden) => m1.id = m2.id
    /\ \A l1, l2 \in lecciones :
          (l1.modulo = l2.modulo /\ l1.orden = l2.orden) => l1.id = l2.id

IsComposite(op) == op \in {"crear_completo", "actualizar_completo"}

\* C3: no two modules of a course and no two lessons of a module share an
\* orden; a composite request whose list repeats an orden among siblings
\* answers 400 and leaves every table as it was (nothing of the request is
\* persisted, so nothing is renumbered either).
C3_OrdenUnique ==
    /\ []UniqueOrden
    /\ [][(IsComposite(response'.op) /\ response'.repeats)
            => /\ response'.status = HTTP_400_BAD_REQUEST
               /\ UNCHANGED <<cursos, modulos, lecciones>>]_vars

\* a composite request repeating an orden failed after it had written rows,
\* and the tables hold two modules of one course
C3_Witness ==
    /\ IsComposite(response.op)
    /\ response.repeats
    /\ response.undone
    /\ \E m1, m2 \in modulos : m1.curso = m2.curso /\ m1.id # m2.id

----------------------------------------------------------------------------
(* Course saves: the price of a free course *)

NextCursos ==
    \/ \E data \in CursoCreateData : CursoCreate(data)
    \/ \E uuid \in CursoUuids, data \in CursoPartialData : CursoPartialUpdate(uuid, data)
    \/ \E data \in CompletoData(CursoCreateData, {<<>>}) : crear_completo(data)
    \/ \E uuid \in CursoUuids, data \in CompletoData(CursoPartialData, {<<>>}) :
          actualizar_completo(uuid, data)
    \/ \E data \in ModuloAddData : AdminModuloAdd(data)

SpecCursos == InitCatalog /\ [][NextCursos]_vars

\* C8: every stored course with es_gratuito set has precio 0.
C8_FreeCourseHasZeroPrice ==
    \A c \in cursos : c.es_gratuito => c.precio = 0

\* a course posted as free with price 10 is stored with price 0
C8_Witness ==
    /\ response.op = "curso_create"
    /\ response.status = HTTP_201_CREATED
    /\ Get(response.request, "es_gratuito", FALSE)
    /\ Get(response.request, "precio", 0) = 10
    /\ Row(cursos, response.curso).precio = 0

----------------------------------------------------------------------------
(* Lesson saves: the content type of a lesson without video *)

\* lesson forms of the admin: LeccionAdmin has the video_url field,
\* LeccionInline has not
LeccionFormData ==
    [modulo : {1}, titulo : {"l"}, orden : Ordenes,
     tipo_contenido : {"video", "texto", "quiz"}, video_url : {"u", ""}]
    \cup [modulo : {1}, titulo : {"l"}, orden : Ordenes,
          tipo_contenido : {"video", "proyecto"}]

\* bodies of PATCH lecciones/{id}/; the empty body saves the row as it is
LeccionSaveData ==
    {<<>>, [tipo_contenido |-> "video"], [video_url |-> ""], [video_url |-> None],
     [video_url |-> "u"], [tipo_contenido |-> "quiz"],
     [tipo_contenido |-> "video", video_url |-> ""],
     [tipo_contenido |-> "video", video_url |-> "u"],
     [tipo_contenido |-> "podcast"]}

NextLecciones ==
    \/ CursoCreate(CursoFull(1, 0, TRUE))
    \/ AdminModuloAdd([curso |-> 1, titulo |-> "m", orden |-> 1])
    \/ \E data \in LeccionFormData : AdminLeccionAdd(data)
    \/ \E id \in 1 .. MaxLeccionId, data \in LeccionSaveData :
          LeccionPartialUpdate(id, data)

SpecLecciones == InitCatalog /\ [][NextLecciones]_vars

\* what Leccion.save stores as the type of a lesson submitted with type t
\* and video reference u
StoredTipo(t, u) == IF t = "video" /\ Falsy(u) THEN "texto" ELSE t

\* C9: every stored lesson of type video has a video reference, and saving a
\* stored lesson again stores it unchanged; a lesson saved with type video
\* and no reference is stored as texto, any other lesson with the type it
\* was saved with.
C9_VideoHasUrl ==
    /\ [](\A l \in lecciones :
            /\ l.tipo_contenido = "video" => ~Falsy(l.video_url)
            /\ Leccion_save(l) = l)
    /\ [][\A data \in LeccionFormData :
            (response'.op = "admin_leccion_add" /\ AdminLeccionAdd(data))
            => \A l \in lecciones' \ lecciones :
                  l.tipo_contenido = StoredTipo(data.tipo_contenido,
                                                Get(data, "video_url", None))]_vars
    /\ [][\A id \in 1 .. MaxLeccionId, data \in LeccionSaveData :
            (response'.op = "leccion_partial_update" /\ LeccionPartialUpdate(id, data))
            => \A l \in lecciones' \ lecciones :
                  l.tipo_contenido =
                     StoredTipo(Get(data, "tipo_contenido", Row(lecciones, id).tipo_contenido),
                                Get(data, "video_url", Row(lecciones, id).video_url))]_vars

\* a lesson stored as texto was saved again with type video and no reference
\* and is still texto
C9_Witness ==
    /\ response.op = "leccion_partial_update"
    /\ response.request = [tipo_contenido |-> "video"]
    /\ Exists(lecciones, response.curso)
    /\ Falsy(Row(lecciones, response.curso).video_url)
    /\ Row(lecciones, response.curso).tipo_contenido = "texto"

----------------------------------------------------------------------------
(* The users app as a state machine *)

E_ax == <<"a", "@", "x">>
E_Ax == <<"A", "@", "x">>
E_a1x == <<"a", "1", "@", "x">>

GoodPassword == "Xk7mq2pw"

Registro(email, password, confirm) ==
    [email |-> email, password |-> password, confirm_password |-> confirm]

\* registrations: three well-formed addresses, a malformed one, a wrong
\* confirmation, a short password
RegistroData ==
    {Registro(e, GoodPassword, GoodPassword) : e \in {E_ax, E_Ax, E_a1x, <<"a">>}}
    \cup {Registro(E_ax, GoodPassword, "other"), Registro(E_a1x, "short", "short")}

PerfilFull(handle, fecha) ==
    [first_name |-> "n", last_name |-> "a", fecha_nacimiento |-> fecha,
     usuario_unico |-> handle, pais |-> "p"]

\* bodies of completar-perfil: complete ones (a handle in upper case, one
\* outside the pattern, a twelve-year-old), and the handle alone
CompletarPerfilData ==
    {PerfilFull(<<"b">>, <<2000, 1, 1>>), PerfilFull(<<"B">>, <<2000, 1, 1>>),
     PerfilFull(<<"b", "-">>, <<2000, 1, 1>>), PerfilFull(<<"b">>, <<2012, 6, 16>>),
     [usuario_unico |-> <<"b">>]}

\* bodies of perfil: emptying and filling a mandatory field, a birth date in
\* the future, an empty body
PerfilUpdateData ==
    {[first_name |-> ""], [first_name |-> "n"],
     [fecha_nacimiento |-> <<2026, 1, 1>>], <<>>}

DocenteFull(email, username, fecha) ==
    [email |-> email, username |-> username, first_name |-> "n", last_name |-> "a",
     fecha_nacimiento |-> fecha, pais |-> "p", password |-> GoodPassword,
     confirm_password |-> GoodPassword, especialidad |-> "e",
     biografia_extendida |-> "b", experiencia_anos |-> 5]

\* instructor forms: valid ones, a seventeen-year-old
DocenteCreateData ==
    {DocenteFull(<<"b", "@", "x">>, <<"b">>, <<1990, 1, 1>>),
     DocenteFull(<<"d", "@", "x">>, <<"B">>, <<1990, 1, 1>>),
     DocenteFull(<<"d", "@", "x">>, <<"a", "1">>, <<2007, 6, 16>>)}

\* the users who edit their profile: everyone but the superuser
PerfilUsers == 2 .. MaxUsuarioId

\* who calls the instructor administration: the superuser, and a user
\* without the staff flag
AdminCallers == 1 .. 2

\* a fresh installation: only the superuser exists
InitUsers ==
    /\ usuarios = {AdminFixture}
    /\ docentes = {}
    /\ categorias = {1}
    /\ cursos = {} /\ modulos = {} /\ lecciones = {}
    /\ ids = [curso |-> 1, modulo |-> 1, leccion |-> 1, usuario |-> 2, docente |-> 1]
    /\ response = SimpleResponse("none", HTTP_200_OK, NoId, <<>>)
    /\ inflight = {}

NextUsers ==
    \/ \E data \in RegistroData : RegistroInicial(data)
    \/ \E user \in PerfilUsers, partial \in BOOLEAN, data \in CompletarPerfilData :
          CompletarPerfil(user, partial, data)
    \/ \E user \in PerfilUsers, data \in PerfilUpdateData : PerfilUpdate(user, data)
    \/ \E user \in AdminCallers, data \in DocenteCreateData : DocenteCreate(user, data)
    \/ \E user \in AdminCallers, id \in 1 .. 2 : DocenteDelete(user, id)

SpecUsers == InitUsers /\ [][NextUsers]_vars

----------------------------------------------------------------------------
(* Properties of the users app *)

Empty(v) == v = "" \/ v = None

\* C7: every stored user has perfil_completo set exactly when first_name,
\* last_name, fecha_nacimiento, usuario_unico and pais are all non-empty.
C7_PerfilCompletoIff ==
    \A u \in usuarios :
        u.perfil_completo <=>
            /\ ~Empty(u.first_name)
            /\ ~Empty(u.last_name)
            /\ u.fecha_nacimiento # NoDate
            /\ u.usuario_unico # NoText
            /\ ~Empty(u.pais)

\* a user who has the other four mandatory fields emptied the first name
\* through perfil and is stored as incomplete
C7_Witness ==
    /\ response.op = "perfil_update"
    /\ response.status = HTTP_200_OK
    /\ response.request = [first_name |-> ""]
    /\ LET u == Row(usuarios, response.curso)
       IN  /\ ~u.perfil_completo
           /\ u.usuario_unico # NoText /\ u.fecha_nacimiento # NoDate
           /\ ~Empty(u.last_name) /\ ~Empty(u.pais)

\* the name a registration generates from an email: the lowercased local
\* part, or that followed by the first counter 1, 2, 3, ... no user holds
GeneratedName(email) ==
    LET base == lower(split_first(email))
        held(name) == \E v \in usuarios : v.username = name
    IN  IF ~held(base) THEN base
        ELSE base \o str(CHOOSE k \in 1 .. (Cardinality(usuarios) + 1) :
                            /\ ~held(base \o str(k))
                            /\ \A j \in 1 .. (k - 1) : held(base \o str(j)))

\* a registration answered 201 stored exactly one new user, incomplete
RegisteredOne ==
    /\ usuarios \subseteq usuarios'
    /\ Cardinality(usuarios' \ usuarios) = 1
    /\ \A u \in usuarios' \ usuarios : u.id = response'.curso /\ ~u.perfil_completo

\* C10 as stated: the new user carries the generated name as its handle
\* (usuario_unico).
C10_GeneratedHandle ==
    [][\A data \in RegistroData :
          (response'.op = "registro" /\ response'.status = HTTP_201_CREATED
           /\ RegistroInicial(data))
          => /\ RegisteredOne
             /\ \A u \in usuarios' \ usuarios :
                   u.usuario_unico = GeneratedName(data.email)]_vars

\* C10: a successful registration stores exactly one new user, incomplete,
\* whose login name (username) is the generated name, held by no other user;
\* its handle (usuario_unico) is empty.
C10_GeneratedUsername ==
    [][\A data \in RegistroData :
          (response'.op = "registro" /\ response'.status = HTTP_201_CREATED
           /\ RegistroInicial(data))
          => /\ RegisteredOne
             /\ \A u \in usuarios' \ usuarios :
                   /\ u.username = GeneratedName(data.email)
                   /\ ~ \E v \in usuarios : v.username = u.username
                   /\ u.usuario_unico = NoText]_vars

\* a registration found the local part and the counter 1 taken and stored
\* the user with the counter 2
C10_Witness ==
    /\ response.op = "registro"
    /\ response.status = HTTP_201_CREATED
    /\ response.request.email = E_ax
    /\ Row(usuarios, response.curso).username = <<"a", "2">>

----------------------------------------------------------------------------
(* Uniqueness of emails *)

SameIgnoringCase(a, b) == lower(a) = lower(b)

\* C11: no two stored users have emails that are equal ignoring case, and a
\* registration or an instructor creation whose email equals a stored email
\* ignoring case is answered 400.
C11_EmailUniqueIgnoringCase ==
    /\ [](\A u, v \in usuarios : SameIgnoringCase(u.email, v.email) => u.id = v.id)
    /\ [][(/\ response'.op \in {"registro", "docente_create"}
           /\ "email" \in DOMAIN response'.request
           /\ \E u \in usuarios : SameIgnoringCase(u.email, response'.request.email))
          => response'.status \in {HTTP_400_BAD_REQUEST, HTTP_403_FORBIDDEN}]_vars

----------------------------------------------------------------------------
(* Concurrent requests: validation and write as separate steps *)

\* the worker processes of the server; each handles one request at a time
Workers == 1 .. 2

Busy(w) == \E q \in inflight : q.worker = w

\* a request between serializer.is_valid() and serializer.save()
Pending(w, op, instance, data) ==
    [worker |-> w, op |-> op, instance |-> instance, data |-> data]

\* user rows the pending registrations and instructor creations will insert
PendingInserts == Cardinality({q \in inflight : q.op # "completar_perfil"})

\* RegistroInicialView.create up to serializer.is_valid(raise_exception=True)
RegistroInicialValidate(w, data) ==
    /\ ~Busy(w)
    /\ ids.usuario + PendingInserts <= MaxUsuarioId
    /\ IF ~RegistroInicialSerializer_is_valid(data)
       THEN /\ response' = SimpleResponse("registro", HTTP_400_BAD_REQUEST, NoId, data)
            /\ UNCHANGED inflight
       ELSE /\ inflight' = inflight \cup {Pending(w, "registro", <<>>, data)}
            /\ UNCHANGED response
    /\ UNCHANGED <<usuarios, docentes, ids, categorias, cursos, modulos, lecciones>>

\* RegistroInicialView.create from serializer.save() on
RegistroInicialSave(w) ==
    \E q \in inflight :
        /\ q.worker = w /\ q.op = "registro"
        /\ LET r == RegistroInicialSerializer_create(UsersDb, q.data)
           IN  /\ CommitUsers(r.c)
               /\ response' = SimpleResponse("registro",
                                 IF r.ok THEN HTTP_201_CREATED
                                 ELSE HTTP_500_INTERNAL_SERVER_ERROR, r.id, q.data)
        /\ inflight' = inflight \ {q}
        /\ UNCHANGED <<categorias, cursos, modulos, lecciones>>

\* CompletarPerfilView.update (PUT) up to serializer.is_valid; the instance
\* is request.user as loaded for this request
CompletarPerfilValidate(w, user, data) ==
    /\ ~Busy(w)
    /\ Exists(usuarios, user)
    /\ LET instance == Row(usuarios, user)
       IN  IF instance.perfil_completo
              \/ ~CompletarPerfilSerializer_is_valid(instance, data, FALSE)
           THEN /\ response' = SimpleResponse("completar_perfil", HTTP_400_BAD_REQUEST,
                                              user, data)
                /\ UNCHANGED inflight
           ELSE /\ inflight' = inflight \cup {Pending(w, "completar_perfil", instance, data)}
                /\ UNCHANGED response
    /\ UNCHANGED <<usuarios, docentes, ids, categorias, cursos, modulos, lecciones>>

\* CompletarPerfilView.update from serializer.save() on
CompletarPerfilSave(w) ==
    \E q \in inflight :
        /\ q.worker = w /\ q.op = "completar_perfil"
        /\ LET r == UsuarioUpdate(UsersDb,
                        Assign(q.instance, CompletarPerfilSerializer_validated(q.data)))
           IN  /\ CommitUsers(r.c)
               /\ response' = SimpleResponse("completar_perfil",
                                 IF r.ok THEN HTTP_200_OK
                                 ELSE HTTP_500_INTERNAL_SERVER_ERROR, q.instance.id, q.data)
        /\ inflight' = inflight \ {q}
        /\ UNCHANGED <<categorias, cursos, modulos, lecciones>>

\* DocenteCreateView.create, called by the superuser, up to is_valid
DocenteCreateValidate(w, data) ==
    /\ ~Busy(w)
    /\ ids.usuario + PendingInserts <= MaxUsuarioId
    /\ IF ~DocenteCreateSerializer_is_valid(data)
       THEN /\ response' = SimpleResponse("docente_create", HTTP_400_BAD_REQUEST, NoId, data)
            /\ UNCHANGED inflight
       ELSE /\ inflight' = inflight \cup {Pending(w, "docente_create", <<>>, data)}
            /\ UNCHANGED response
    /\ UNCHANGED <<usuarios, docentes, ids, categorias, cursos, modulos, lecciones>>

\* DocenteCreateView.create from serializer.save() on
DocenteCreateSave(w) ==
    \E q \in inflight :
        /\ q.worker = w /\ q.op = "docente_create"
        /\ LET r == DocenteCreateSerializer_create(UsersDb, q.data)
           IN  IF r.ok
               THEN /\ CommitUsers(r.c)
                    /\ response' = SimpleResponse("docente_create", HTTP_201_CREATED,
                                                  r.id, q.data)
               ELSE /\ response' = SimpleResponse("docente_create",
                                      HTTP_500_INTERNAL_SERVER_ERROR, NoId, q.data)
                    /\ UNCHANGED <<usuarios, docentes, ids>>
        /\ inflight' = inflight \ {q}
        /\ UNCHANGED <<categorias, cursos, modulos, lecciones>>

\* the racing requests: two addresses for registration, one of them also
\* for an instructor, and one handle for every profile
RaceRegistroData == {Registro(e, GoodPassword, GoodPassword) : e \in {E_ax, E_a1x}}

RaceDocenteData == {DocenteFull(E_ax, <<"d">>, <<1990, 1, 1>>)}

RacePerfilData == {PerfilFull(<<"b">>, <<2000, 1, 1>>)}

NextRace ==
    \/ \E w \in Workers, data \in RaceRegistroData : RegistroInicialValidate(w, data)
    \/ \E w \in Workers : RegistroInicialSave(w)
    \/ \E w \in Workers, user \in PerfilUsers, data \in RacePerfilData :
          CompletarPerfilValidate(w, user, data)
    \/ \E w \in Workers : CompletarPerfilSave(w)
    \/ \E w \in Workers, data \in RaceDocenteData : DocenteCreateValidate(w, data)
    \/ \E w \in Workers : DocenteCreateSave(w)

SpecRace == InitUsers /\ [][NextRace]_vars

\* C12: no two users hold the same email or the same handle, and a request
\* that passed validation but lost the race for its email or handle is
\* answered with a client error (validation or conflict), in every
\* interleaving of the validation and write steps.
C12_RaceHasOneWinner ==
    /\ [](\A u, v \in usuarios :
            (u.email = v.email \/ (u.usuario_unico # NoText
                                   /\ u.usuario_unico = v.usuario_unico))
            => u.id = v.id)
    /\ [][\A q \in inflight \ inflight' :
            (\/ \E u \in usuarios : u.email = lower(Get(q.data, "email", NoText))
             \/ \E u \in usuarios : /\ u.id # Get(q.instance, "id", NoId)
                                    /\ u.usuario_unico = Get(q.data, "usuario_unico", NoText))
            => response'.status \in 400 .. 499]_vars

----------------------------------------------------------------------------
(* Completing the profile *)

\* the five mandatory fields are supplied, populated and valid for user u:
\* the handle has the pattern and is held by no other user ignoring case,
\* the birth date is not in the future and implies an age of 13 or more
MandatorySuppliedValid(u, data) ==
    /\ CompletarPerfilSerializer_fields \subseteq DOMAIN data
    /\ ~Empty(data.first_name) /\ ~Empty(data.last_name) /\ ~Empty(data.pais)
    /\ matches_handle_pattern(data.usuario_unico)
    /\ ~ \E v \in usuarios : v.id # u.id
                             /\ SameIgnoringCase(v.usuario_unico, data.usuario_unico)
    /\ ~DateAfter(data.fecha_nacimiento, Today)
    /\ Edad(data.fecha_nacimiento) >= 13

\* C13: a full (PUT) complete_profile call on a complete profile answers 400
\* and leaves the user as it was; on an incomplete profile, with the five
\* mandatory fields supplied and valid, it answers 200 and the profile is
\* complete afterwards.
C13_FullUpdate ==
    [][\A user \in PerfilUsers, data \in CompletarPerfilData :
          (response'.op = "completar_perfil" /\ CompletarPerfil(user, FALSE, data))
          => LET u == Row(usuarios, user)
             IN  /\ u.perfil_completo
                      => /\ response'.status = HTTP_400_BAD_REQUEST
                         /\ UNCHANGED usuarios
                 /\ (~u.perfil_completo /\ MandatorySuppliedValid(u, data))
                      => /\ response'.status = HTTP_200_OK
                         /\ Row(usuarios', user).perfil_completo]_vars

\* a call carrying all five fields was rejected on a complete profile
C13_Witness ==
    /\ response.op = "completar_perfil"
    /\ response.status = HTTP_400_BAD_REQUEST
    /\ response.request = PerfilFull(<<"b">>, <<2000, 1, 1>>)
    /\ Row(usuarios, response.curso).perfil_completo
    /\ Row(usuarios, response.curso).usuario_unico = <<"b">>

\* the fields a partial update supplies are valid for user u
SuppliedValid(u, data) ==
    /\ "usuario_unico" \in DOMAIN data =>
          /\ matches_handle_pattern(data.usuario_unico)
          /\ ~ \E v \in usuarios : v.id # u.id
                                   /\ SameIgnoringCase(v.usuario_unico, data.usuario_unico)
    /\ "fecha_nacimiento" \in DOMAIN data =>
          /\ ~DateAfter(data.fecha_nacimiento, Today)
          /\ Edad(data.fecha_nacimiento) >= 13

\* C14: a partial (PATCH) complete_profile call with valid values answers 200
\* in every profile state, the complete one included, stores the supplied
\* fields, and leaves the profile complete exactly when the five mandatory
\* fields are populated.
C14_PartialUpdateAnyState ==
    [][\A user \in PerfilUsers, data \in CompletarPerfilData :
          (/\ response'.op = "completar_perfil"
           /\ CompletarPerfil(user, TRUE, data)
           /\ SuppliedValid(Row(usuarios, user), data))
          => LET new == Row(usuarios', user)
             IN  /\ response'.status = HTTP_200_OK
                 /\ \A k \in DOMAIN data :
                       new[k] = IF k = "usuario_unico" THEN lower(data[k]) ELSE data[k]
                 /\ new.perfil_completo <=> verificar_perfil_completo(new)]_vars

\* C15: complete_profile (PUT or PATCH) answers 400 and stores nothing when
\* the submitted handle is held by another user ignoring case or has a
\* character outside letters, digits, dot and underscore; when it answers
\* 200 the handle is stored lowercased.
C15_HandleUniqueIgnoringCase ==
    [][\A user \in PerfilUsers, partial \in BOOLEAN, data \in CompletarPerfilData :
          (/\ response'.op = "completar_perfil"
           /\ "usuario_unico" \in DOMAIN data
           /\ CompletarPerfil(user, partial, data))
          => /\ (\/ ~matches_handle_pattern(data.usuario_unico)
                 \/ \E v \in usuarios : /\ v.id # user
                                        /\ SameIgnoringCase(v.usuario_unico,
                                                            data.usuario_unico))
                   => /\ response'.status = HTTP_400_BAD_REQUEST
                      /\ UNCHANGED usuarios
             /\ response'.status = HTTP_200_OK
                   => Row(usuarios', user).usuario_unico = lower(data.usuario_unico)]_vars

----------------------------------------------------------------------------
(* The handle availability check *)

\* str.strip() for the blank of the model
strip(t) ==
    LET solid == {i \in 1 .. Len(t) : t[i] # " "}
    IN  IF solid = {} THEN <<>>
        ELSE SubSeq(t, CHOOSE i \in solid : \A j \in solid : i <= j,
                       CHOOSE i \in solid : \A j \in solid : i >= j)

\* Usuario.objects.filter(usuario_unico=usuario_unico.lower())
\*     .exclude(id=request.user.id).exists()
existe_exact(user, usuario_unico) ==
    \E u \in usuarios : u.usuario_unico = usuario_unico /\ u.id # user

existe(user, usuario_unico) ==
    \E u \in usuarios : u.usuario_unico = lower(usuario_unico) /\ u.id # user

\* GET verificar-usuario/?usuario_unico=... : VerificarUsuarioUnicoView.get
\* param is the query parameter, '' when it is missing
VerificarUsuarioUnico(user, param) ==
    /\ Exists(usuarios, user)
    /\ LET usuario_unico == strip(param)
           answer == SimpleResponse("verificar_usuario_unico", HTTP_200_OK, user, param)
       IN  response' =
              IF usuario_unico = <<>>
                  THEN SimpleResponse("verificar_usuario_unico", HTTP_400_BAD_REQUEST,
                                      user, param)
              ELSE IF ~matches_handle_pattern(usuario_unico)
                  THEN [disponible |-> FALSE] @@ answer
              ELSE [disponible |-> ~existe(user, usuario_unico)] @@ answer
    /\ UNCHANGED <<usuarios, docentes, categorias, cursos, modulos, lecciones, ids,
                   inflight>>

\* query parameters: a handle, in upper case, between blanks, with a
\* character outside the pattern, a missing one, a handle nobody holds
HandleParams ==
    {<<"b">>, <<"B">>, <<" ", "b", " ">>, <<"b", "-">>, <<>>, <<"d">>}

NextHandles ==
    \/ \E data \in RegistroData : RegistroInicial(data)
    \/ \E user \in PerfilUsers, data \in CompletarPerfilData :
          CompletarPerfil(user, FALSE, data)
    \/ \E user \in PerfilUsers, param \in HandleParams :
          VerificarUsuarioUnico(user, param)

SpecHandles == InitUsers /\ [][NextHandles]_vars

\* C16: the availability check changes no table; for a well-formed handle
\* it answers available exactly when no user other than the requester holds
\* the handle ignoring case.
C16_AvailabilityCheck ==
    [][\A user \in PerfilUsers, param \in HandleParams :
          (/\ response'.op = "verificar_usuario_unico"
           /\ VerificarUsuarioUnico(user, param))
          => /\ UNCHANGED <<usuarios, docentes, cursos, modulos, lecciones>>
             /\ matches_handle_pattern(strip(param))
                   => /\ response'.status = HTTP_200_OK
                      /\ response'.disponible <=>
                            ~ \E v \in usuarios :
                                 /\ v.id # user
                                 /\ SameIgnoringCase(v.usuario_unico, strip(param))]_vars

\* the requester asked for 'B' while another user holds 'b' and was told it
\* is taken
C16_Witness ==
    /\ response.op = "verificar_usuario_unico"
    /\ response.request = <<"B">>
    /\ response.status = HTTP_200_OK
    /\ ~response.disponible
    /\ \E v \in usuarios : v.id # response.curso /\ v.usuario_unico = <<"b">>

----------------------------------------------------------------------------
(* Ages *)

\* birth dates around the 13th birthday on the day of the model's runs
\* (2025-06-15), one of today and one in the future
EdadPerfilData ==
    {PerfilFull(<<"b">>, f) :
        f \in {<<2012, 6, 15>>, <<2012, 6, 16>>, <<2012, 5, 20>>, <<2012, 7, 1>>,
               <<2011, 12, 31>>, <<2025, 6, 15>>, <<2025, 6, 16>>}}

\* birth dates around the 18th birthday
EdadDocenteData ==
    {DocenteFull(<<"d", "@", "x">>, <<"d">>, f) :
        f \in {<<2007, 6, 15>>, <<2007, 6, 16>>, <<2007, 5, 20>>, <<2007, 7, 1>>}}

NextEdad ==
    \/ \E data \in RaceRegistroData : RegistroInicial(data)
    \/ \E user \in PerfilUsers, data \in EdadPerfilData :
          CompletarPerfil(user, FALSE, data)
    \/ \E data \in EdadDocenteData : DocenteCreate(1, data)

SpecEdad == InitUsers /\ [][NextEdad]_vars

\* the age on 2025-06-15 of a person born on each date of the requests,
\* counted by hand
AgeOn20250615 ==
    (<<2012, 6, 15>> :> 13) @@ (<<2012, 6, 16>> :> 12) @@ (<<2012, 5, 20>> :> 13)
    @@ (<<2012, 7, 1>> :> 12) @@ (<<2011, 12, 31>> :> 13) @@ (<<2025, 6, 15>> :> 0)
    @@ (<<2007, 6, 15>> :> 18) @@ (<<2007, 6, 16>> :> 17) @@ (<<2007, 5, 20>> :> 18)
    @@ (<<2007, 7, 1>> :> 17)

InFuture == {<<2025, 6, 16>>}

\* C17: the stored age is the year difference, less one before the birthday;
\* complete_profile accepts a birth date exactly when it is not in the
\* future and the age is 13 or more, create_instructor exactly when the age
\* is 18 or more.
C17_AgeLimits ==
    /\ [](\A u \in usuarios :
            u.fecha_nacimiento # NoDate => u.edad = AgeOn20250615[u.fecha_nacimiento])
    /\ [][\A user \in PerfilUsers, data \in EdadPerfilData :
            (/\ response'.op = "completar_perfil"
             /\ CompletarPerfil(user, FALSE, data)
             /\ ~Row(usuarios, user).perfil_completo
             /\ ~ \E v \in usuarios : v.id # user /\ v.usuario_unico = data.usuario_unico)
            => (response'.status = HTTP_200_OK
                  <=> /\ data.fecha_nacimiento \notin InFuture
                      /\ AgeOn20250615[data.fecha_nacimiento] >= 13)]_vars
    /\ [][\A data \in EdadDocenteData :
            (/\ response'.op = "docente_create"
             /\ DocenteCreate(1, data)
             /\ ~ \E v \in usuarios : \/ v.email = data.email
                                      \/ v.username = data.username
                                      \/ v.usuario_unico = data.username)
            => (response'.status = HTTP_201_CREATED
                  <=> AgeOn20250615[data.fecha_nacimiento] >= 18)]_vars

\* a profile was completed on the 13th birthday and an instructor created on
\* the 18th
C17_Witness ==
    /\ \E u \in usuarios : u.fecha_nacimiento = <<2012, 6, 15>> /\ u.edad = 13
    /\ \E u \in usuarios : u.fecha_nacimiento = <<2007, 6, 15>> /\ u.edad = 18

----------------------------------------------------------------------------
(* Creating an instructor *)

\* the rows a request added
NewUsuarios == usuarios' \ usuarios
NewDocentes == docentes' \ docentes

\* one user and its docente were added, nothing else touched; the user is an
\* instructor with a complete profile and the given handle
InstructorAdded(handle) ==
    \E u \in NewUsuarios, d \in NewDocentes :
        /\ usuarios' = usuarios \cup {u}
        /\ docentes' = docentes \cup {d}
        /\ d.id = response'.curso
        /\ d.usuario = u.id
        /\ u.tipo_usuario = "docente"
        /\ u.perfil_completo
        /\ u.usuario_unico = handle

\* C18 as stated: creating an instructor adds both rows or none; on success
\* the user is an instructor with a complete profile whose handle is the
\* username as submitted.
C18_CreateInstructorAsSubmitted ==
    [][response'.op = "docente_create" =>
          IF response'.status = HTTP_201_CREATED
          THEN InstructorAdded(response'.request.username)
          ELSE usuarios' = usuarios /\ docentes' = docentes]_vars

\* C18: creating an instructor adds both rows or none (a uniqueness failure
\* on the seeded handle leaves no user behind); on success the user is an
\* instructor with a complete profile whose handle is the submitted
\* username in lower case.
C18_CreateInstructorAtomic ==
    [][response'.op = "docente_create" =>
          IF response'.status = HTTP_201_CREATED
          THEN InstructorAdded(lower(response'.request.username))
          ELSE usuarios' = usuarios /\ docentes' = docentes]_vars

\* an instructor form failed on the handle another user holds, and no user
\* with the submitted email or username was left behind
C18_Witness ==
    /\ response.op = "docente_create"
    /\ response.status = HTTP_500_INTERNAL_SERVER_ERROR
    /\ \E v \in usuarios : v.usuario_unico = lower(response.request.username)
    /\ ~ \E v \in usuarios : \/ v.email = lower(response.request.email)
                             \/ v.username = lower(response.request.username)
    /\ docentes = {}

----------------------------------------------------------------------------
(* Instructors: updates, role drift, deactivation *)

\* UPDATE of a Docente row without the check of the user's role
Docente_save_no_coerce(db, row) ==
    Ok([db EXCEPT !.docentes = {d \in @ : d.id # row.id} \cup {row}], row.id)

\* Docente.save on an existing row: the linked user is made an instructor
\* and saved when its role is anything else, then the row is written
Docente_save(db, row) ==
    LET u == Row(db.usuarios, row.usuario)
        ru == IF u.tipo_usuario # "docente"
              THEN UsuarioUpdate(db, [u EXCEPT !.tipo_usuario = "docente"])
              ELSE Ok(db, u.id)
    IN  IF ~ru.ok THEN ru
        ELSE Ok([ru.c EXCEPT !.docentes = {d \in @ : d.id # row.id} \cup {row}], row.id)

\* DocenteUpdateSerializer.Meta.fields that the model keeps
DocenteUpdateSerializer_fields ==
    {"especialidad", "biografia_extendida", "experiencia_anos"}

\* DocenteUpdateSerializer: the three mandatory columns are required unless
\* partial and not blank; validate_experiencia_anos
DocenteUpdateSerializer_is_valid(data, partial) ==
    LET vd == ValidatedData(data, DocenteUpdateSerializer_fields)
    IN  /\ partial \/ DocenteUpdateSerializer_fields \subseteq DOMAIN vd
        /\ "especialidad" \in DOMAIN vd => ~Falsy(vd.especialidad)
        /\ "biografia_extendida" \in DOMAIN vd => ~Falsy(vd.biografia_extendida)
        /\ "experiencia_anos" \in DOMAIN vd => vd.experiencia_anos \in 0 .. 60

\* PUT/PATCH admin/docentes/{id}/ : DocenteDetailView.update (IsAdminUser);
\* n of the response: the user rows the save of the docente wrote
DocenteUpdate(user, id, partial, data) ==
    /\ Exists(usuarios, user)
    /\ IF ~Row(usuarios, user).is_staff
       THEN /\ response' = SimpleResponse("docente_update", HTTP_403_FORBIDDEN, id, data)
            /\ UNCHANGED <<usuarios, docentes, ids>>
       ELSE IF ~Exists(docentes, id)
       THEN /\ response' = SimpleResponse("docente_update", HTTP_404_NOT_FOUND, id, data)
            /\ UNCHANGED <<usuarios, docentes, ids>>
       ELSE IF ~DocenteUpdateSerializer_is_valid(data, partial)
       THEN /\ response' = SimpleResponse("docente_update", HTTP_400_BAD_REQUEST, id, data)
            /\ UNCHANGED <<usuarios, docentes, ids>>
       ELSE LET instance == Row(docentes, id)
                r == Docente_save(UsersDb,
                        Assign(instance, ValidatedData(data, DocenteUpdateSerializer_fields)))
                saved == IF Row(usuarios, instance.usuario).tipo_usuario # "docente"
                         THEN 1 ELSE 0
            IN  /\ CommitUsers(r.c)
                /\ response' = [SimpleResponse("docente_update",
                                   IF r.ok THEN HTTP_200_OK
                                   ELSE HTTP_500_INTERNAL_SERVER_ERROR, id, data)
                                EXCEPT !.n = saved]
    /\ UNCHANGED <<categorias, cursos, modulos, lecciones, inflight>>

\* the change form of a user in the Django admin site, whose fieldsets
\* include tipo_usuario: a direct edit of the role, not a call of the API
AdminUsuarioEdit(id, tipo) ==
    /\ Exists(usuarios, id)
    /\ LET r == UsuarioUpdate(UsersDb, [Row(usuarios, id) EXCEPT !.tipo_usuario = tipo])
       IN  /\ CommitUsers(r.c)
           /\ response' = SimpleResponse("admin_usuario_edit", HTTP_200_OK, id, <<>>)
    /\ UNCHANGED <<categorias, cursos, modulos, lecciones, inflight>>

\* bodies of an instructor update: a full one, one column, an experience out
\* of range
DocenteUpdateData ==
    {[especialidad |-> "f", biografia_extendida |-> "b", experiencia_anos |-> 6],
     [especialidad |-> "f"], [experiencia_anos |-> 61]}

\* the two instructors of the fixture, one of them deactivated; courses are
\* created for them, their rows updated, their users edited in the admin
\* site, and both deleted
NextDocentes ==
    \/ \E data \in CursoCreateData : CursoCreate(data)
    \/ \E user \in AdminCallers, id \in 1 .. 3, partial \in BOOLEAN,
          data \in DocenteUpdateData : DocenteUpdate(user, id, partial, data)
    \/ \E user \in AdminCallers, id \in 1 .. 3 : DocenteDelete(user, id)
    \/ \E id \in 2 .. 3, tipo \in {"estudiante", "docente"} : AdminUsuarioEdit(id, tipo)

SpecDocentes == InitCatalog /\ [][NextDocentes]_vars

\* every user with a Docente row is an instructor
DocentesAreDocente ==
    \A d \in docentes : Row(usuarios, d.usuario).tipo_usuario = "docente"

\* C19: after every save of a Docente the linked user's role is 'docente',
\* whatever it was before; every call of the API keeps "every user with a
\* Docente row has role docente", which holds at the start.
C19_DocenteSaveCoercesRole ==
    /\ [][(response'.op = "docente_update" /\ response'.status = HTTP_200_OK)
          => /\ Exists(docentes', response'.curso)
             /\ Row(usuarios', Row(docentes', response'.curso).usuario).tipo_usuario
                   = "docente"]_vars
    /\ [][(response'.op # "admin_usuario_edit" /\ DocentesAreDocente)
          => DocentesAreDocente']_vars

\* an instructor whose role had been edited away was updated, and is an
\* instructor again
C19_Witness ==
    /\ response.op = "docente_update"
    /\ response.status = HTTP_200_OK
    /\ response.n = 1
    /\ Row(usuarios, Row(docentes, response.curso).usuario).tipo_usuario = "docente"

\* the columns of a user row other than the flag a deactivation clears and
\* the age, which every save computes again from the birth date
KeptOnDeactivation == (DOMAIN UsuarioDefaults) \ {"activo", "edad"}

\* C20: a successful delete of an instructor through the administration
\* keeps the Docente row with its fields, every course, module and lesson,
\* and every user row; the linked user has activo false and keeps its role,
\* its mandatory profile fields and perfil_completo; no other user changes.
C20_DeleteIsDeactivation ==
    [][(response'.op = "docente_delete" /\ response'.status = HTTP_200_OK)
       => /\ docentes' = docentes
          /\ cursos' = cursos /\ modulos' = modulos /\ lecciones' = lecciones
          /\ Exists(docentes, response'.curso)
          /\ LET uid == Row(docentes, response'.curso).usuario
             IN  /\ Exists(usuarios', uid)
                 /\ ~Row(usuarios', uid).activo
                 /\ \A k \in KeptOnDeactivation :
                       Row(usuarios', uid)[k] = Row(usuarios, uid)[k]
                 /\ {u \in usuarios' : u.id # uid} = {u \in usuarios : u.id # uid}]_vars

\* the instructor of a course was deleted through the administration: the
\* course still names the instructor, whose user is deactivated
C20_Witness ==
    /\ response.op = "docente_delete"
    /\ response.status = HTTP_200_OK
    /\ \E c \in cursos : c.docente_principal = response.curso
    /\ \E d \in docentes :
          /\ d.id = response.curso
          /\ ~Row(usuarios, d.usuario).activo
          /\ Row(usuarios, d.usuario).perfil_completo

----------------------------------------------------------------------------
(* Handle generation *)

\* re.sub(r'[^a-z0-9._]', '', t): upper-case letters are outside the class
RECURSIVE re_sub_disallowed(_)
re_sub_disallowed(t) ==
    IF t = <<>> THEN <<>>
    ELSE LET rest == re_sub_disallowed(Tail(t))
         IN  IF Head(t) \in (HandleChars \ {"A", "B"}) \cup {"n"}
             THEN <<Head(t)>> \o rest ELSE rest

\* while Usuario.objects.filter(usuario_unico=unique_username)
\*                      .exclude(id=self.id).exists():
\*     unique_username = f"{base_username}{counter}"; counter += 1
RECURSIVE usuario_unico_loop(_, _, _, _, _)
usuario_unico_loop(table, id, base_username, unique_username, counter) ==
    IF \E u \in table : u.id # id /\ u.usuario_unico = unique_username
    THEN usuario_unico_loop(table, id, base_username,
                            base_username \o str(counter), counter + 1)
    ELSE unique_username

\* Usuario.generar_usuario_unico(base_username); self carries id, email and
\* the names as sequences of characters
generar_usuario_unico(table, self, base_username) ==
    LET base == IF base_username # NoText THEN base_username
                ELSE IF self.first_name # NoText /\ self.last_name # NoText
                THEN lower(self.first_name) \o <<".">> \o lower(self.last_name)
                ELSE lower(split_first(self.email))
        cleaned == re_sub_disallowed(base)
    IN  usuario_unico_loop(table, self.id, cleaned, cleaned, 1)

\* a user with a complete profile who holds a handle
HandleHolder(id, handle) ==
    Usuario_save([UsuarioDefaults EXCEPT
        !.id = id, !.email = <<"a", DigitChar[id], "@", "x">>,
        !.username = <<"a", DigitChar[id]>>,
        !.first_name = "n", !.last_name = "a", !.fecha_nacimiento = <<2000, 1, 1>>,
        !.usuario_unico = handle, !.pais = "p",
        !.password = make_password("Xk7mq2pw")])

\* the handles users may hold when a handle is generated
HeldHandles == <<<<"a", ".", "b">>, <<"a", ".", "b", "1">>, <<"a", ".", "b", "2">>, <<"a">>>>

\* the superuser, whose login name is a, and any of four users with the
\* login names a1 .. a4 holding the handles a.b, a.b1, a.b2 and a
InitGenerar ==
    /\ \E held \in SUBSET (1 .. Len(HeldHandles)) :
          usuarios = {AdminFixture} \cup {HandleHolder(i + 1, HeldHandles[i]) : i \in held}
    /\ docentes = {}
    /\ categorias = {1}
    /\ cursos = {} /\ modulos = {} /\ lecciones = {}
    /\ ids = [curso |-> 1, modulo |-> 1, leccion |-> 1, usuario |-> 6, docente |-> 1]
    /\ response = SimpleResponse("none", HTTP_200_OK, NoId, <<>>)
    /\ inflight = {}

\* user.generar_usuario_unico(base_username) on an instance whose names
\* are first_name and last_name; result: the value returned
GenerarUsuarioUnico(user, first_name, last_name, base_username) ==
    /\ Exists(usuarios, user)
    /\ LET self == [id |-> user, email |-> Row(usuarios, user).email,
                    first_name |-> first_name, last_name |-> last_name]
       IN  response' = [result |-> generar_usuario_unico(usuarios, self, base_username)]
                       @@ SimpleResponse("generar_usuario_unico", HTTP_200_OK, user,
                                         [first_name |-> first_name,
                                          last_name |-> last_name,
                                          base_username |-> base_username])
    /\ UNCHANGED <<usuarios, docentes, categorias, cursos, modulos, lecciones, ids,
                   inflight>>

\* names and bases: upper case, a character outside the pattern, none
GenerarNames == {<<"a">>, <<"A">>, <<"b">>, <<"B", "-">>, NoText}
GenerarBases == {NoText, <<"a", ".", "b">>, <<"A", ".", "b">>, <<"a", "-", ".", "b">>, <<"a">>}

NextGenerar ==
    \E user \in 1 .. 5, first_name \in GenerarNames, last_name \in GenerarNames,
       base_username \in GenerarBases :
        GenerarUsuarioUnico(user, first_name, last_name, base_username)

SpecGenerar == InitGenerar /\ [][NextGenerar]_vars

\* t without the characters that are not letters, digits, dot or underscore
RECURSIVE OnlyHandleChars(_)
OnlyHandleChars(t) ==
    IF t = <<>> THEN <<>>
    ELSE IF Head(t) \in HandleChars THEN <<Head(t)>> \o OnlyHandleChars(Tail(t))
    ELSE OnlyHandleChars(Tail(t))

\* the base, or the base with the smallest counter from 1 that no user
\* other than the caller holds
FirstFree(base, caller) ==
    LET held(h) == \E v \in usuarios : v.id # caller /\ v.usuario_unico = h
    IN  IF ~held(base) THEN base
        ELSE base \o str(CHOOSE k \in 1 .. (Cardinality(usuarios) + 1) :
                            /\ ~held(base \o str(k))
                            /\ \A j \in 1 .. (k - 1) : held(base \o str(j)))

\* C21: the generated handle is the base, lowercased and with every
\* character other than letters, digits, dot and underscore removed, followed
\* by the smallest counter from 1 that makes it free when the base is held
\* by another user, both for the default base first.last and for a base the
\* caller supplies.
C21_GeneratedHandle ==
    (response.op = "generar_usuario_unico"
     /\ (\/ response.request.base_username # NoText
         \/ response.request.first_name # NoText /\ response.request.last_name # NoText))
    => LET q == response.request
           base == IF q.base_username # NoText THEN q.base_username
                   ELSE q.first_name \o <<".">> \o q.last_name
       IN  response.result = FirstFree(OnlyHandleChars(lower(base)), response.curso)

----------------------------------------------------------------------------
(* The instructor of a course *)

\* courses naming the active instructor, the deactivated one, and one that
\* does not exist
ElegiblesCursoData == {CursoFull(d, 10, FALSE) : d \in {1, 2, 9}}

\* the instructors are deactivated and their users empty and fill a
\* mandatory field of the profile, while courses are created for them and
\* given to them
NextElegibles ==
    \/ \E data \in ElegiblesCursoData : CursoCreate(data)
    \/ \E data \in ElegiblesCursoData : crear_completo([curso |-> data, modulos |-> <<>>])
    \/ \E uuid \in 1 .. MaxCursoId, d \in {1, 2, 9} :
          actualizar_completo(uuid, [curso |-> [docente_principal |-> d]])
    \/ \E uuid \in 1 .. MaxCursoId : actualizar_completo(uuid, [curso |-> [precio |-> 20]])
    \/ \E id \in 1 .. 2 : DocenteDelete(1, id)
    \/ \E user \in 2 .. 3, data \in {[first_name |-> ""], [first_name |-> "n"]} :
          PerfilUpdate(user, data)

SpecElegibles == InitCatalog /\ [][NextElegibles]_vars

\* the instructor exists and its user is active with a complete profile
DocenteElegible(id) ==
    \E d \in docentes : /\ d.id = id
                        /\ Row(usuarios, d.usuario).activo
                        /\ Row(usuarios, d.usuario).perfil_completo

\* C22: a course is created (plain create, crear_completo) or given an
\* instructor (the curso payload of actualizar_completo) only with an
\* instructor that exists and whose user is active with a complete profile
\* when the request is made; a request naming any other instructor is
\* rejected and leaves the courses as they were.
C22_InstructorEligible ==
    /\ [][\A data \in ElegiblesCursoData :
            (\/ response'.op = "curso_create" /\ CursoCreate(data)
             \/ response'.op = "crear_completo"
                /\ crear_completo([curso |-> data, modulos |-> <<>>]))
            => IF DocenteElegible(data.docente_principal)
               THEN \A c \in cursos' \ cursos :
                       c.docente_principal = data.docente_principal
               ELSE /\ response'.status = HTTP_400_BAD_REQUEST
                    /\ cursos' = cursos]_vars
    /\ [][\A uuid \in 1 .. MaxCursoId, d \in {1, 2, 9} :
            (/\ response'.op = "actualizar_completo"
             /\ actualizar_completo(uuid, [curso |-> [docente_principal |-> d]])
             /\ ~DocenteElegible(d))
            => /\ response'.status = HTTP_400_BAD_REQUEST
               /\ cursos' = cursos]_vars
    /\ [][\A c \in cursos' :
            (\A b \in cursos : b.id = c.id => b.docente_principal # c.docente_principal)
            => DocenteElegible(c.docente_principal)]_vars

\* the instructor of a course was deactivated, and the request giving the
\* course to that instructor again was rejected
C22_Witness ==
    /\ response.op = "actualizar_completo"
    /\ response.status = HTTP_400_BAD_REQUEST
    /\ \E c \in cursos : /\ c.id = response.curso
                         /\ ~DocenteElegible(c.docente_principal)

----------------------------------------------------------------------------
(* Permissions of the course views *)

\* request.user of a request without credentials
Anonymous == NoId

\* permissions.IsAdminUser: request.user and request.user.is_staff
IsAdminUser(user) == Exists(usuarios, user) /\ Row(usuarios, user).is_staff

\* permissions.IsAuthenticatedOrReadOnly on a request that writes
IsAuthenticatedOrReadOnly(user) == Exists(usuarios, user)

\* the view runs for a permitted caller; any other caller gets an
\* authorization error (the model answers 403 to the anonymous caller too)
\* and nothing is written
Guarded(permitted, op, data, handler) ==
    IF permitted THEN handler
    ELSE /\ response' = SimpleResponse(op, HTTP_403_FORBIDDEN, NoId, data)
         /\ UNCHANGED <<usuarios, docentes, categorias, cursos, modulos, lecciones,
                        ids, inflight>>

\* who sends the requests: nobody, the superuser, an instructor
PermisosCallers == {Anonymous, 1, 2}

PermisosCurso == CursoFull(1, 10, FALSE)

\* CursoViewSet: create is for IsAdminUser (get_permissions), crear_completo
\* and actualizar_completo are declared with IsAdminUser; ModuloViewSet and
\* LeccionViewSet have permission_classes IsAuthenticatedOrReadOnly and no
\* get_permissions
NextPermisos ==
    \/ \E user \in PermisosCallers :
          Guarded(IsAdminUser(user), "curso_create", PermisosCurso,
                  CursoCreate(PermisosCurso))
    \/ \E user \in PermisosCallers :
          Guarded(IsAdminUser(user), "crear_completo", <<>>,
                  crear_completo([curso |-> PermisosCurso, modulos |-> <<>>]))
    \/ \E user \in PermisosCallers, uuid \in 1 .. MaxCursoId :
          Guarded(IsAdminUser(user), "actualizar_completo", <<>>,
                  actualizar_completo(uuid, [curso |-> [precio |-> 20]]))
    \/ \E user \in PermisosCallers, id \in 1 .. MaxModuloId, data \in ModuloPartialData :
          Guarded(IsAuthenticatedOrReadOnly(user), "modulo_partial_update", data,
                  ModuloPartialUpdate(id, data))
    \/ \E user \in PermisosCallers, id \in 1 .. MaxLeccionId, data \in LeccionPartialData :
          Guarded(IsAuthenticatedOrReadOnly(user), "leccion_partial_update", data,
                  LeccionPartialUpdate(id, data))
    \/ \E data \in ModuloAddData : AdminModuloAdd(data)
    \/ \E data \in CatalogLeccionAddData : AdminLeccionAdd(data)
    \/ \E user \in AdminCallers : DocenteDelete(user, 1)
    \/ \E user \in AdminCallers : DocenteUpdate(user, 1, TRUE, [especialidad |-> "f"])

SpecPermisos == InitCatalog /\ [][NextPermisos]_vars

\* a request the caller sends to one of the privileged operations
PrivilegedRequest(user) ==
    \/ Guarded(IsAdminUser(user), "curso_create", PermisosCurso,
               CursoCreate(PermisosCurso))
    \/ Guarded(IsAdminUser(user), "crear_completo", <<>>,
               crear_completo([curso |-> PermisosCurso, modulos |-> <<>>]))
    \/ \E uuid \in 1 .. MaxCursoId :
          Guarded(IsAdminUser(user), "actualizar_completo", <<>>,
                  actualizar_completo(uuid, [curso |-> [precio |-> 20]]))
    \/ \E id \in 1 .. MaxModuloId, data \in ModuloPartialData :
          Guarded(IsAuthenticatedOrReadOnly(user), "modulo_partial_update", data,
                  ModuloPartialUpdate(id, data))
    \/ \E id \in 1 .. MaxLeccionId, data \in LeccionPartialData :
          Guarded(IsAuthenticatedOrReadOnly(user), "leccion_partial_update", data,
                  LeccionPartialUpdate(id, data))
    \/ Exists(usuarios, user) /\ DocenteDelete(user, 1)
    \/ Exists(usuarios, user) /\ DocenteUpdate(user, 1, TRUE, [especialidad |-> "f"])

\* C23: a request to a privileged operation (instructor administration, a
\* write of a course, of its modules or of its lessons) from a caller who
\* is not an administrator is answered with an authorization error and
\* leaves every table unchanged.
C23_OnlyAdministratorsWrite ==
    [][\A user \in PermisosCallers :
          (~IsAdminUser(user) /\ PrivilegedRequest(user))
          => /\ response'.status = HTTP_403_FORBIDDEN
             /\ UNCHANGED <<usuarios, docentes, cursos, modulos, lecciones>>]_vars

----------------------------------------------------------------------------
(* The shape of a crear_completo request *)

\* C24: a crear_completo request whose module list is empty is rejected and
\* stores no course; every course a crear_completo request stores has at
\* least one module when the request returns.
C24_EmptyModulosRejected ==
    /\ [][\A data \in CompletoData(CursoCreateData, {<<>>}) :
            (/\ response'.op = "crear_completo"
             /\ crear_completo(data)
             /\ "modulos" \in DOMAIN data /\ data.modulos = <<>>)
            => /\ response'.status = HTTP_400_BAD_REQUEST
               /\ cursos' = cursos]_vars
    /\ [][response'.op = "crear_completo"
            => \A c \in cursos' \ cursos : \E m \in modulos' : m.curso = c.id]_vars

\* C25: a crear_completo request whose body lacks the key curso or the key
\* modulos is answered 400 without any write: no row is created, no id is
\* consumed and nothing had to be rolled back, whatever the other key holds.
C25_MissingKeyNoWrite ==
    [][(/\ response'.op = "crear_completo"
        /\ ~({"curso", "modulos"} \subseteq response'.keys))
       => /\ response'.status = HTTP_400_BAD_REQUEST
          /\ ~response'.undone
          /\ UNCHANGED <<cursos, modulos, lecciones, ids, usuarios, docentes,
                         categorias>>]_vars

\* a body with a course payload and no modulos key was answered 400
C25_Witness ==
    /\ response.op = "crear_completo"
    /\ response.keys = {"curso"}
    /\ response.status = HTTP_400_BAD_REQUEST
    /\ ~response.undone

\* the course payload names a category or an instructor that does not
\* exist or is not eligible
NamesMissingRelated(curso_data) ==
    \/ "categoria" \in DOMAIN curso_data /\ curso_data.categoria \notin categorias
    \/ "docente_principal" \in DOMAIN curso_data
       /\ ~ \E d \in DocentesElegibles : d.id = curso_data.docente_principal

\* C26: when actualizar_completo addresses a course that does not exist, or
\* a composite write names a category or an instructor that does not exist
\* or is not eligible, the answer is not the one of a field-validation
\* failure (400 Bad Request).
C26_NotFoundDistinct ==
    /\ [][\A uuid \in CursoUuids, data \in CompletoData(CursoPartialData, {<<>>}) :
            (/\ response'.op = "actualizar_completo"
             /\ actualizar_completo(uuid, data)
             /\ ~Exists(cursos, uuid))
            => response'.status # HTTP_400_BAD_REQUEST]_vars
    /\ [][\A data \in CompletoData(CursoCreateData, {<<>>}) :
            (/\ response'.op = "crear_completo"
             /\ crear_completo(data)
             /\ {"curso", "modulos"} \subseteq DOMAIN data
             /\ NamesMissingRelated(data.curso))
            => response'.status # HTTP_400_BAD_REQUEST]_vars

----------------------------------------------------------------------------
(* The profile status query *)

\* the characters of a name of the model
chars(name) ==
    CASE name = "a" -> <<"a">> [] name = "b" -> <<"b">> [] name = "n" -> <<"n">>
      [] OTHER -> NoText

\* campos_requeridos of EstadoPerfilView.get, in the order of the dict
campos_requeridos ==
    <<[campo |-> "first_name", nombre |-> "Nombre"],
      [campo |-> "last_name", nombre |-> "Apellido"],
      [campo |-> "fecha_nacimiento", nombre |-> "Fecha de nacimiento"],
      [campo |-> "usuario_unico", nombre |-> "Nombre de usuario"],
      [campo |-> "pais", nombre |-> "País"]>>

\* not getattr(user, campo)
not_getattr(u, campo) ==
    CASE campo = "fecha_nacimiento" -> u.fecha_nacimiento = NoDate
      [] campo = "usuario_unico" -> u.usuario_unico = NoText
      [] OTHER -> Falsy(u[campo])

RECURSIVE campos_faltantes_from(_, _)
campos_faltantes_from(u, i) ==
    IF i > Len(campos_requeridos) THEN <<>>
    ELSE (IF not_getattr(u, campos_requeridos[i].campo)
          THEN <<campos_requeridos[i].nombre>> ELSE <<>>)
         \o campos_faltantes_from(u, i + 1)

\* the loop over campos_requeridos with 'pais' left out of the dict
campos_faltantes_without_pais(u) ==
    SelectSeq(campos_faltantes_from(u, 1), LAMBDA nombre : nombre # "País")

\* for campo, nombre in campos_requeridos.items(): if not getattr(user, campo)
campos_faltantes(u) == campos_faltantes_from(u, 1)

\* GET estado-perfil/ : EstadoPerfilView.get; a nullable flag is <<>> for
\* null and <<flag>> otherwise, the suggestion is NoText for null
EstadoPerfil(user) ==
    /\ Exists(usuarios, user)
    /\ LET u == Row(usuarios, user)
           self == [id |-> u.id, email |-> u.email, first_name |-> chars(u.first_name),
                    last_name |-> chars(u.last_name)]
           usuario_unico_sugerido ==
               IF u.usuario_unico = NoText /\ ~Falsy(u.first_name) /\ ~Falsy(u.last_name)
               THEN generar_usuario_unico(usuarios, self, NoText)
               ELSE NoText
           perfil_docente ==
               IF u.tipo_usuario = "docente"
               THEN IF \E d \in docentes : d.usuario = u.id
                    THEN <<perfil_docente_completo(CHOOSE d \in docentes : d.usuario = u.id)>>
                    ELSE <<FALSE>>
               ELSE <<>>
       IN  response' =
              [estado |-> [perfil_completo |-> u.perfil_completo,
                           campos_faltantes |-> campos_faltantes(u),
                           siguiente_paso |-> IF u.perfil_completo THEN None
                                              ELSE "completar_perfil",
                           usuario_unico_sugerido |-> usuario_unico_sugerido,
                           es_docente |-> u.tipo_usuario = "docente",
                           perfil_docente_completo |-> perfil_docente]]
              @@ SimpleResponse("estado_perfil", HTTP_200_OK, user, <<>>)
    /\ UNCHANGED <<usuarios, docentes, categorias, cursos, modulos, lecciones, ids,
                   inflight>>

\* bodies of perfil that fill and empty the names
EstadoPerfilData == {[first_name |-> "b"], [last_name |-> "a"], [first_name |-> ""]}

\* users register, name themselves, complete the profile; an instructor is
\* created; the admin site edits roles; everyone asks for the status
NextEstado ==
    \/ \E data \in RaceRegistroData : RegistroInicial(data)
    \/ \E user \in PerfilUsers, data \in EstadoPerfilData : PerfilUpdate(user, data)
    \/ \E user \in PerfilUsers :
          CompletarPerfil(user, FALSE, PerfilFull(<<"b", ".", "a">>, <<2000, 1, 1>>))
    \/ DocenteCreate(1, DocenteFull(<<"d", "@", "x">>, <<"d">>, <<1990, 1, 1>>))
    \/ \E id \in PerfilUsers, tipo \in {"estudiante", "docente"} : AdminUsuarioEdit(id, tipo)
    \/ \E user \in 1 .. MaxUsuarioId : EstadoPerfil(user)

SpecEstado == InitUsers /\ [][NextEstado]_vars

\* the display names of the mandatory fields of u that are empty
EmptyMandatory(u) ==
    (IF Empty(u.first_name) THEN {"Nombre"} ELSE {})
    \cup (IF Empty(u.last_name) THEN {"Apellido"} ELSE {})
    \cup (IF u.fecha_nacimiento = NoDate THEN {"Fecha de nacimiento"} ELSE {})
    \cup (IF u.usuario_unico = NoText THEN {"Nombre de usuario"} ELSE {})
    \cup (IF Empty(u.pais) THEN {"País"} ELSE {})

\* C27: the profile status lists as missing exactly the empty mandatory
\* fields; the list is empty iff perfil_completo, and siguiente_paso is
\* 'completar_perfil' iff the profile is not complete; a handle is suggested
\* only when first and last name are present; for role docente the
\* instructor flag is reported (false without a Docente row), for any other
\* role it is null; the query changes nothing.
C27_EstadoPerfil ==
    [][response'.op = "estado_perfil" =>
          LET u == Row(usuarios, response'.curso)
              e == response'.estado
              listed == {e.campos_faltantes[i] : i \in 1 .. Len(e.campos_faltantes)}
          IN  /\ UNCHANGED <<usuarios, docentes, categorias, cursos, modulos,
                             lecciones, ids>>
              /\ listed = EmptyMandatory(u)
              /\ Len(e.campos_faltantes) = Cardinality(listed)
              /\ e.perfil_completo = u.perfil_completo
              /\ (listed = {}) <=> e.perfil_completo
              /\ (e.siguiente_paso = "completar_perfil") <=> ~e.perfil_completo
              /\ e.usuario_unico_sugerido # NoText
                    => ~Empty(u.first_name) /\ ~Empty(u.last_name)
              /\ IF u.tipo_usuario = "docente"
                 THEN /\ Len(e.perfil_docente_completo) = 1
                      /\ (~ \E d \in docentes : d.usuario = u.id)
                            => e.perfil_docente_completo = <<FALSE>>
                 ELSE e.perfil_docente_completo = <<>>]_vars

\* a user with both names and no handle, made docente in the admin site
\* without a Docente row, asked for the status: the handle b.a is taken, the
\* suggestion is b.a1, the instructor flag is false
C27_Witness ==
    /\ response.op = "estado_perfil"
    /\ response.estado.usuario_unico_sugerido = <<"b", ".", "a", "1">>
    /\ response.estado.perfil_docente_completo = <<FALSE>>
    /\ response.estado.siguiente_paso = "completar_perfil"
    /\ Len(response.estado.campos_faltantes) = 3

----------------------------------------------------------------------------
(* The minimum age *)

\* bodies of perfil with a birth date: an adult, a five-year-old, tomorrow
EdadMinimaPerfilData ==
    {[fecha_nacimiento |-> f] : f \in {<<2000, 1, 1>>, <<2020, 1, 1>>, <<2025, 6, 16>>}}

\* every operation of the API that writes the birth date
NextEdadMinima ==
    \/ \E data \in RaceRegistroData : RegistroInicial(data)
    \/ \E user \in PerfilUsers, partial \in BOOLEAN, data \in EdadPerfilData :
          CompletarPerfil(user, partial, data)
    \/ \E user \in PerfilUsers, data \in EdadMinimaPerfilData : PerfilUpdate(user, data)
    \/ \E data \in EdadDocenteData : DocenteCreate(1, data)

SpecEdadMinima == InitUsers /\ [][NextEdadMinima]_vars

\* C28: every stored user whose birth date is set has a stored age of at
\* least 13.
C28_StoredAgeAtLeast13 ==
    \A u \in usuarios : u.fecha_nacimiento # NoDate => u.edad >= 13

----------------------------------------------------------------------------
(* The disambiguation loops, one iteration at a time *)

\* the local variables of a running loop: the query it repeats (on username
\* for the registration, on usuario_unico without the caller for the
\* handle), the base, the candidate and the counter
Loop(op, id, base) ==
    [op |-> op, id |-> id, base |-> base, value |-> base, counter |-> 1]

\* the condition of the while statement
LoopCondition(l) ==
    IF l.op = "username_loop"
    THEN \E u \in usuarios : u.username = l.value
    ELSE \E u \in usuarios : u.id # l.id /\ u.usuario_unico = l.value

\* the statements before the while of RegistroInicialSerializer.create
UsernameLoopStart(email) ==
    /\ inflight = {}
    /\ inflight' = {Loop("username_loop", NoId, lower(split_first(email)))}
    /\ UNCHANGED <<usuarios, docentes, categorias, cursos, modulos, lecciones, ids,
                   response>>

\* the statements before the while of generar_usuario_unico
UsuarioUnicoLoopStart(user, base_username) ==
    /\ inflight = {}
    /\ Exists(usuarios, user)
    /\ inflight' = {Loop("usuario_unico_loop", user, re_sub_disallowed(base_username))}
    /\ UNCHANGED <<usuarios, docentes, categorias, cursos, modulos, lecciones, ids,
                   response>>

\* the body of the while with the counter left as it is
LoopIterate_same_counter ==
    \E l \in inflight :
        /\ LoopCondition(l)
        /\ inflight' = {[l EXCEPT !.value = l.base \o str(l.counter)]}
        /\ UNCHANGED <<usuarios, docentes, categorias, cursos, modulos, lecciones, ids,
                       response>>

\* one pass of the body: the next candidate, counter += 1
LoopIterate ==
    \E l \in inflight :
        /\ LoopCondition(l)
        /\ inflight' = {[l EXCEPT !.value = l.base \o str(l.counter),
                                  !.counter = l.counter + 1]}
        /\ UNCHANGED <<usuarios, docentes, categorias, cursos, modulos, lecciones, ids,
                       response>>

\* the condition is false: the candidate is the result; n counts the passes
LoopExit ==
    \E l \in inflight :
        /\ ~LoopCondition(l)
        /\ inflight' = {}
        /\ response' = [[result |-> l.value]
                        @@ SimpleResponse(l.op, HTTP_200_OK, l.id, l.base)
                        EXCEPT !.n = l.counter - 1]
        /\ UNCHANGED <<usuarios, docentes, categorias, cursos, modulos, lecciones, ids>>

LoopEmails == {E_ax, E_Ax, <<"b", "@", "x">>}
LoopBases == {<<"a", ".", "b">>, <<"a">>, <<"a", "-", "b">>}

NextLoops ==
    \/ \E email \in LoopEmails : UsernameLoopStart(email)
    \/ \E user \in 1 .. 5, base_username \in LoopBases :
          UsuarioUnicoLoopStart(user, base_username)
    \/ LoopIterate
    \/ LoopExit

SpecLoops == InitGenerar /\ [][NextLoops]_vars

\* a loop that has started keeps running
SpecLoopsFair == SpecLoops /\ WF_vars(LoopIterate) /\ WF_vars(LoopExit)

\* the k-th candidate of a loop: the base, then base1, base2, ...
Candidate(base, k) == IF k = 0 THEN base ELSE base \o str(k)

\* someone else holds the name: any user for a login name, any user but the
\* caller for a handle
HeldByOther(l, name) ==
    \E u \in usuarios : IF l.op = "username_loop" THEN u.username = name
                        ELSE u.id # l.id /\ u.usuario_unico = name

\* C29: a disambiguation loop that has started exits; the value it returns
\* is held by no user other than the caller, and every candidate tried
\* before it (base, base1, ..., base(k-1)) was held by someone else.
C29_LoopsTerminate ==
    /\ (inflight # {}) ~> (inflight = {})
    /\ [][LoopExit =>
            \A l \in inflight :
                LET k == response'.n
                IN  /\ response'.result = Candidate(l.base, k)
                    /\ ~HeldByOther(l, response'.result)
                    /\ \A j \in 0 .. (k - 1) : HeldByOther(l, Candidate(l.base, j))]_vars
    /\ [][LoopExit =>
            \A l \in inflight :
                response'.result =
                    IF l.op = "username_loop"
                    THEN username_loop(usuarios, l.base, 1)
                    ELSE usuario_unico_loop(usuarios, l.id, l.base, l.base, 1)]_vars

\* the handle loop passed a.b, a.b1 and a.b2, all held, and returned a.b3
C29_Witness ==
    /\ response.op = "usuario_unico_loop"
    /\ response.n = 3
    /\ response.result = <<"a", ".", "b", "3">>
    /\ inflight = {}

----------------------------------------------------------------------------
(* Login, and the instructors a deactivation hides *)

\* the check of CustomTokenObtainPairSerializer.validate with activo left out
cuenta_activa_is_active_only(u) == u.is_active

\* CustomTokenObtainPairSerializer.validate:
\* not (not user.is_active or not user.activo)
cuenta_activa(u) == u.is_active /\ u.activo

\* the fields of CustomTokenObtainPairSerializer: an EmailField and a
\* CharField, both required and not blank
CustomTokenObtainPairSerializer_fields(data) ==
    /\ "email" \in DOMAIN data /\ "password" \in DOMAIN data
    /\ data.email # NoText /\ EmailFormat(data.email)
    /\ data.password # ""

\* POST auth/login/ : CustomTokenObtainPairView.post. Usuario.objects.get
\* raises DoesNotExist (caught) without a match and MultipleObjectsReturned
\* (not caught) with several; token is <<id>> for the access/refresh pair
\* made for the user id, <<>> when no token is issued
Login(data) ==
    /\ LET matches == {u \in usuarios : u.email = data.email}
           rejected == SimpleResponse("login", HTTP_400_BAD_REQUEST, NoId, data)
                       @@ [token |-> <<>>]
       IN  IF ~CustomTokenObtainPairSerializer_fields(data) THEN response' = rejected
           ELSE IF matches = {} THEN response' = rejected
           ELSE IF Cardinality(matches) > 1
           THEN response' = SimpleResponse("login", HTTP_500_INTERNAL_SERVER_ERROR,
                                           NoId, data) @@ [token |-> <<>>]
           ELSE LET user == CHOOSE u \in matches : TRUE
                IN  IF ~check_password(data.password, user.password)
                    THEN response' = rejected
                    ELSE IF ~cuenta_activa(user) THEN response' = rejected
                    ELSE response' = SimpleResponse("login", HTTP_200_OK, user.id, data)
                                     @@ [token |-> <<user.id>>]
    /\ UNCHANGED <<usuarios, docentes, categorias, cursos, modulos, lecciones, ids,
                   inflight>>

\* the change form of a user in the Django admin site: UserAdmin.fieldsets
\* holds is_active, the added fieldset holds activo
AdminUsuarioActive(id, campo, flag) ==
    /\ Exists(usuarios, id)
    /\ LET u == Row(usuarios, id)
           r == UsuarioUpdate(UsersDb, IF campo = "activo" THEN [u EXCEPT !.activo = flag]
                                       ELSE [u EXCEPT !.is_active = flag])
       IN  /\ CommitUsers(r.c)
           /\ response' = SimpleResponse("admin_usuario_active", HTTP_200_OK, id, <<>>)
    /\ UNCHANGED <<categorias, cursos, modulos, lecciones, inflight>>

\* the queryset of DocenteListView, DocentesPublicosView and
\* CursoViewSet.docentes_disponibles: usuario__activo and
\* usuario__perfil_completo (the order of the rows is left out)
docentes_activos ==
    {d \in docentes : Row(usuarios, d.usuario).activo
                      /\ Row(usuarios, d.usuario).perfil_completo}

ListaOps == {"docentes_publicos", "admin_docentes", "docentes_disponibles"}

\* GET docentes/ (AllowAny), GET admin/docentes/ and
\* GET cursos/docentes-disponibles/ (IsAdminUser); lista holds the ids of the
\* listed instructors
ListDocentes(op, user) ==
    Guarded(op = "docentes_publicos" \/ IsAdminUser(user), op, <<>>,
            /\ response' = SimpleResponse(op, HTTP_200_OK, NoId, <<>>)
                           @@ [lista |-> {d.id : d \in docentes_activos}]
            /\ UNCHANGED <<usuarios, docentes, categorias, cursos, modulos,
                           lecciones, ids, inflight>>)

E_dx == <<"d", "@", "x">>

\* credentials: the addresses of the registrations and of the instructor, an
\* address nobody has, with the right and a wrong password; a body without
\* password
LoginData ==
    [email : {E_ax, E_Ax, E_dx, <<"b", "@", "x">>}, password : {GoodPassword, "other"}]
    \cup {[email |-> E_dx]}

\* two registrations whose addresses differ in case, one instructor created
\* and deactivated by the superuser, the admin site switching either flag of
\* a user, logins and the three instructor lists
NextLogin ==
    \/ \E e \in {E_ax, E_Ax} : RegistroInicial(Registro(e, GoodPassword, GoodPassword))
    \/ DocenteCreate(1, DocenteFull(E_dx, <<"d">>, <<1990, 1, 1>>))
    \/ \E id \in 1 .. 2 : DocenteDelete(1, id)
    \/ \E id \in PerfilUsers, campo \in {"activo", "is_active"}, flag \in BOOLEAN :
          AdminUsuarioActive(id, campo, flag)
    \/ \E data \in LoginData : Login(data)
    \/ \E op \in ListaOps, user \in {Anonymous, 1, 2} : ListDocentes(op, user)

SpecLogin == InitUsers /\ [][NextLogin]_vars

\* a login was answered with a token pair
TokenIssued(r) == r.op = "login" /\ r.token # <<>>

\* C30: a login issues a token pair only for the one user who has the
\* submitted email, whose password matches and whose is_active and activo are
\* both true, and answers 200 exactly then; while a user is inactive (after
\* DELETE admin/docentes/{id}/, say) every login with that user's email is
\* rejected without a token; and the instructor lists hold exactly the
\* instructors whose user is activo with a complete profile, so none that
\* was deactivated
C30_LoginOnlyWhileActive ==
    /\ [](response.op = "login" =>
            /\ TokenIssued(response) <=> response.status = HTTP_200_OK
            /\ TokenIssued(response) =>
                  \E u \in usuarios :
                     /\ response.token = <<u.id>>
                     /\ u.email = response.request.email
                     /\ check_password(response.request.password, u.password)
                     /\ u.is_active /\ u.activo)
    /\ [][\A u \in usuarios :
            (/\ ~(u.is_active /\ u.activo)
             /\ response'.op = "login"
             /\ "email" \in DOMAIN response'.request
             /\ response'.request.email = u.email)
            => ~TokenIssued(response') /\ response'.status # HTTP_200_OK]_vars
    /\ [](response.op \in ListaOps /\ response.status = HTTP_200_OK =>
            /\ \A d \in docentes :
                  ~Row(usuarios, d.usuario).activo => d.id \notin response.lista
            /\ \A d \in docentes :
                  Row(usuarios, d.usuario).activo /\ Row(usuarios, d.usuario).perfil_completo
                  => d.id \in response.lista)

\* an instructor deactivated through DELETE admin/docentes/{id}/ logs in with
\* the right password and is rejected
C30_Witness ==
    /\ response.op = "login"
    /\ response.status = HTTP_400_BAD_REQUEST
    /\ ~TokenIssued(response)
    /\ \E d \in docentes :
          LET u == Row(usuarios, d.usuario)
          IN  /\ u.email = response.request.email
              /\ "password" \in DOMAIN response.request
              /\ check_password(response.request.password, u.password)
              /\ u.is_active /\ ~u.activo

====
